---------------------------- MODULE Spec2Model ----------------------------
(***************************************************************************)
(* Remote command execution API of openregister (scripts/container-api.py  *)
(* with scripts/ai_code_fixing.py, scripts/container-api-ai.py and         *)
(* scripts/phpqa-api.py): the dispatch of one HTTP request, the calls to   *)
(* the Execution Bridge (docker exec) and to the model service, the file   *)
(* operations on the target and the response that is sent.  With it, the   *)
(* document-parsing server (docker/dolphin/api_server.py): its request     *)
(* threads, the lazily loaded model and the temporary PDF files.           *)
(*                                                                         *)
(* Text (paths, file content, model responses) is a sequence of            *)
(* characters.             A JSON object or a Python dict is a function    *)
(* from its keys to its values.                                            *)
(***************************************************************************)
EXTENDS Integers, Sequences, FiniteSets, TLC

VARIABLES
    pc,          \* position of the request handler: "idle", "cmd", "post", "file", "model"
    req,         \* the request being handled, or the last one handled
    call,        \* the external call the handler is blocked on
    local,       \* the handler's local variables across a blocking call
    resp,        \* the response sent for req (NoResp while it is being handled)
    files,       \* the target's files under APP_PATH: name -> content
    clock,       \* the local wall clock, in seconds
    bridgeCalls, \* docker exec calls launched for req
    modelCalls,  \* model-service calls launched for req
    commands,    \* the COMMANDS table of each server
    lastWrite,   \* history: the last successful write-file, if nothing touched the target since
    backups,     \* history: the latest three successful backup-file calls, the latest last
                 \* (these two are kept only under the specifications that switch them on)
    ended,       \* history: how the request's latest call of the Execution Bridge ended,
                 \* and the exit code of the latest that returned
    reply,       \* history: what the model service answered to the request, if it did
    workers,            \* api_server.py: the request threads, each with its position and locals
    dolphin_model,      \* api_server.py: the global dolphin_model
    dolphin_processor,  \* api_server.py: the global dolphin_processor
    cuda_available,     \* api_server.py: torch.cuda.is_available()
    tmpfiles,           \* api_server.py: the temporary PDF files that exist
    accepted,           \* history: requests accepted by api_server.py
    loads               \* history: completed from_pretrained calls, of model and processor

apiVars == <<pc, req, call, local, resp, files, clock, bridgeCalls, modelCalls, commands,
             lastWrite, backups, ended, reply>>

dolphinVars == <<workers, dolphin_model, dolphin_processor, cuda_available, tmpfiles,
                 accepted, loads>>

vars == <<pc, req, call, local, resp, files, clock, bridgeCalls, modelCalls, commands,
          lastWrite, backups, ended, reply, workers, dolphin_model, dolphin_processor,
          cuda_available, tmpfiles, accepted, loads>>

----------------------------------------------------------------------------
(* Bounds of the model.                                                    *)

\* Chunks a file content is put together from.
MaxChunks == 2
\* Seconds the wall clock runs for.
MaxClock == 2
\* Parts a model response is put together from.
MaxParts == 4
\* Lines a command prints.
MaxLines == 2
\* Files of a PHPCS report, and messages of one file.
MaxFiles == 2
MaxMessages == 2
\* Request threads of api_server.py, requests it accepts, pages of a PDF.
MaxWorkers == 2
MaxRequests == 3
MaxPages == 2

----------------------------------------------------------------------------
(* Text.                                                                   *)

NL == "\n"
SP == " "
\* the backtick character
BT == "bt"

Whitespace == {NL, SP}

\* Python: sub in s
Contains(s, sub) ==
    \E i \in 1..(Len(s) - Len(sub) + 1) : SubSeq(s, i, i + Len(sub) - 1) = sub

\* Python: s.startswith(p)
StartsWith(s, p) ==
    Len(s) >= Len(p) /\ SubSeq(s, 1, Len(p)) = p

\* Python: s.find(sub) + 1, and 0 when sub is not in s
Find(s, sub) ==
    IF Contains(s, sub)
    THEN CHOOSE i \in 1..(Len(s) - Len(sub) + 1) :
            /\ SubSeq(s, i, i + Len(sub) - 1) = sub
            /\ \A j \in 1..(i - 1) : SubSeq(s, j, j + Len(sub) - 1) # sub
    ELSE 0

\* Python: s.split(sep)[0]
BeforeFirst(s, sep) ==
    IF Contains(s, sep) THEN SubSeq(s, 1, Find(s, sep) - 1) ELSE s

\* Python: sep.join(s.split(sep)[1:]), for s that contains sep
AfterFirst(s, sep) ==
    SubSeq(s, Find(s, sep) + Len(sep), Len(s))

\* Python: s.split(sep)[1], for s that contains sep
SplitSecond(s, sep) ==
    BeforeFirst(AfterFirst(s, sep), sep)

RECURSIVE LStrip(_)
LStrip(s) ==
    IF s # <<>> /\ Head(s) \in Whitespace THEN LStrip(Tail(s)) ELSE s

RECURSIVE RStrip(_)
RStrip(s) ==
    IF s # <<>> /\ s[Len(s)] \in Whitespace
    THEN RStrip(SubSeq(s, 1, Len(s) - 1))
    ELSE s

\* Python: s.strip()
Strip(s) == RStrip(LStrip(s))

\* Python: s.split(sep)
RECURSIVE Split(_, _)
Split(s, sep) ==
    IF Contains(s, sep)
    THEN <<BeforeFirst(s, sep)>> \o Split(AfterFirst(s, sep), sep)
    ELSE <<s>>

\* Python: s.split(NL)
SplitLines(s) == Split(s, <<NL>>)

\* every line followed by a newline
RECURSIVE JoinLines(_)
JoinLines(lines) ==
    IF lines = <<>> THEN <<>>
    ELSE Head(lines) \o <<NL>> \o JoinLines(Tail(lines))

\* All sequences over S of length at most n.
RECURSIVE SeqsUpTo(_, _)
SeqsUpTo(S, n) ==
    IF n = 0 THEN {<<>>}
    ELSE LET shorter == SeqsUpTo(S, n - 1)
         IN  shorter \cup {<<c>> \o s : c \in S, s \in {t \in shorter : Len(t) = n - 1}}

\* All concatenations of at most n members of the set of texts S.
RECURSIVE Concats(_, _)
Concats(S, n) ==
    IF n = 0 THEN {<<>>}
    ELSE LET shorter == Concats(S, n - 1)
         IN  shorter \cup {c \o s : c \in S, s \in shorter}

\* Python dict: d.update(e), as a value
Update(d, e) ==
    [k \in DOMAIN d \cup DOMAIN e |-> IF k \in DOMAIN e THEN e[k] ELSE d[k]]

EmptyDict == [k \in {} |-> 0]

----------------------------------------------------------------------------
(* The Command Registry.                                                   *)

\* The three servers; each listens on port 9090 and is a program of its own.
CONTAINER_API == "container-api.py"
CONTAINER_API_AI == "container-api-ai.py"
PHPQA_API == "phpqa-api.py"

Servers == {CONTAINER_API, CONTAINER_API_AI, PHPQA_API}

None == "None"

\* class CommandConfig: timeout defaults to 120, post_processor to None
CommandConfig(name, command, timeout, description, post_processor) ==
    [name |-> name, command |-> command, timeout |-> timeout,
     description |-> description, post_processor |-> post_processor]

\* ai_code_fixing.AI_COMMANDS: the entries with a 'handler' are the file operations
AI_COMMANDS ==
    ("phpcs-detailed" :>
        [name |-> "phpcs-detailed",
         command |-> "./vendor/bin/phpcs --report=json --standard=PSR12 lib/",
         timeout |-> 60,
         description |-> "Run PHPCS and get detailed issues per file for AI fixing",
         post_processor |-> "process_phpcs_result", handler |-> None]) @@
    ("read-file" :>
        [name |-> "read-file", command |-> None, timeout |-> 10,
         description |-> "Read a file from the container",
         post_processor |-> None, handler |-> "read_file_handler"]) @@
    ("write-file" :>
        [name |-> "write-file", command |-> None, timeout |-> 10,
         description |-> "Write content to a file",
         post_processor |-> None, handler |-> "write_file_handler"]) @@
    ("backup-file" :>
        [name |-> "backup-file", command |-> None, timeout |-> 10,
         description |-> "Create a backup of a file before AI fixes",
         post_processor |-> None, handler |-> "backup_file_handler"])

\* container-api.py: the COMMANDS literal
BaseCommands ==
    ("phpqa" :> CommandConfig("phpqa", "composer phpqa", 300,
        "Run full PHPQA analysis suite (PHPCS, PHPMD, PHPStan, Psalm, PHPMetrics)",
        "process_phpqa_result")) @@
    ("cs-fix" :> CommandConfig("cs-fix", "composer cs:fix", 120,
        "Auto-fix code style issues with PHP CS Fixer", "process_cs_fix_result")) @@
    ("cs-check" :> CommandConfig("cs-check", "composer cs:check", 60,
        "Check code style without fixing (dry-run)", None)) @@
    ("phpstan" :> CommandConfig("phpstan", "composer phpstan", 120,
        "Run PHPStan static analysis", None)) @@
    ("psalm" :> CommandConfig("psalm", "composer psalm", 120,
        "Run Psalm static analysis", None)) @@
    ("test-unit" :> CommandConfig("test-unit", "composer test:unit", 180,
        "Run PHPUnit unit tests", "process_test_result")) @@
    ("test-integration" :> CommandConfig("test-integration", "composer test:integration", 300,
        "Run integration tests", "process_test_result")) @@
    ("composer-install" :> CommandConfig("composer-install", "composer install", 180,
        "Install composer dependencies", None)) @@
    ("composer-update" :> CommandConfig("composer-update", "composer update", 300,
        "Update composer dependencies", None)) @@
    ("npm-install" :> CommandConfig("npm-install", "npm install", 180,
        "Install npm dependencies", None)) @@
    ("build-js" :> CommandConfig("build-js", "npm run build", 120,
        "Build JavaScript/Vue assets", None)) @@
    ("watch-js" :> CommandConfig("watch-js", "npm run watch", 3600,
        "Watch and rebuild JavaScript on changes", None))

\* container-api.py: for cmd_name, cmd_data in AI_COMMANDS.items(): if 'handler' not in cmd_data
MergedCommands ==
    LET merged == {n \in DOMAIN AI_COMMANDS : AI_COMMANDS[n].handler = None}
    IN  [n \in DOMAIN BaseCommands \cup merged |->
            IF n \in merged
            THEN CommandConfig(AI_COMMANDS[n].name, AI_COMMANDS[n].command,
                               AI_COMMANDS[n].timeout, AI_COMMANDS[n].description,
                               AI_COMMANDS[n].post_processor)
            ELSE BaseCommands[n]]

\* container-api-ai.py: COMMANDS, a dict of dicts (no post_processor key: None)
AiCommands ==
    ("phpcs-detailed" :> CommandConfig("phpcs-detailed",
        "./vendor/bin/phpcs --report=json --standard=PSR12 lib/", 60,
        "Get detailed PHPCS issues for AI fixing", "process_phpcs_detailed")) @@
    ("phpqa" :> CommandConfig("phpqa", "composer phpqa", 300,
        "Run full PHPQA suite", None)) @@
    ("cs-fix" :> CommandConfig("cs-fix", "composer cs:fix", 120,
        "Auto-fix code style", None))

\* phpqa-api.py has no table: do_POST names its two routes, each with its own handler
PhpqaRoutes ==
    ("phpqa" :> CommandConfig("phpqa", "composer phpqa", 300,
        "Run composer phpqa and return results", None)) @@
    ("cs-fix" :> CommandConfig("cs-fix", "composer cs:fix", 120,
        "Run composer cs:fix to automatically fix code style issues", None))

\* The table of each server once it is initialised.
COMMANDS ==
    (CONTAINER_API :> MergedCommands) @@
    (CONTAINER_API_AI :> AiCommands) @@
    (PHPQA_API :> PhpqaRoutes)

FileOperations == {"read-file", "write-file", "backup-file"}

\* The list every 404 of container-api.py carries.
AvailableCommands(cmds) == DOMAIN cmds \cup FileOperations

----------------------------------------------------------------------------
(* The execution target: the files under APP_PATH, as bash, cat, cp and    *)
(* base64 treat them.  APP_PATH is modelled as a flat directory of regular *)
(* files.                                                                  *)

ContentChunks == {<<"$">>, <<NL>>, <<"E", "O", "F">>}

\* The file contents a caller may send.
Contents == Concats(ContentChunks, MaxChunks)

NotAFile == <<>>

\* Python: [x for x in xs if x not in drop]
RECURSIVE Without(_, _)
Without(xs, drop) ==
    IF xs = <<>> THEN <<>>
    ELSE (IF Head(xs) \in drop THEN <<>> ELSE <<Head(xs)>>) \o Without(Tail(xs), drop)

\* The regular file that the shell word APP_PATH/p names, NotAFile when the word
\* names a directory, leaves APP_PATH or goes through a directory that is not there.
Resolve(p) ==
    LET segs == Split(p, <<"/">>)
        kept == Without(segs, {<<>>, <<".">>})
    IN  IF /\ Len(kept) = 1
           /\ kept[1] # <<".", ".">>
           /\ segs[Len(segs)] = kept[1]
        THEN kept[1]
        ELSE NotAFile

\* files with name holding content
Store(fs, name, content) ==
    [n \in DOMAIN fs \cup {name} |-> IF n = name THEN content ELSE fs[n]]

\* The outcome of a command in the target: its exit code, its stdout and the files it leaves.
Outcome(rc, out, fs) == [returncode |-> rc, stdout |-> out, files |-> fs]

\* cat APP_PATH/p
Cat(fs, p) ==
    IF Resolve(p) \in DOMAIN fs
    THEN Outcome(0, fs[Resolve(p)], fs)
    ELSE Outcome(1, <<>>, fs)

\* cp APP_PATH/p APP_PATH/q
Cp(fs, p, q) ==
    IF Resolve(p) \in DOMAIN fs /\ Resolve(q) # NotAFile
    THEN Outcome(0, <<>>, Store(fs, Resolve(q), fs[Resolve(p)]))
    ELSE Outcome(1, <<>>, fs)

HereDocMarker == <<"E", "O", "F">>

\* Index of the first line that is the marker; the script always ends with one.
RECURSIVE FirstMarker(_, _)
FirstMarker(lines, i) ==
    IF lines[i] = HereDocMarker THEN i ELSE FirstMarker(lines, i + 1)

\* bash -c of: cat > APP_PATH/p << 'EOF' NL content NL EOF
\* The here-document is the lines up to the first line that is exactly EOF, each
\* with its newline.  What follows that line is run as further commands, the last
\* of which is the script's own EOF line: no such command, exit code 127.
HereDocWrite(fs, p, content) ==
    LET lines == SplitLines(content) \o <<HereDocMarker>>
        stop  == FirstMarker(lines, 1)
        body  == JoinLines(SubSeq(lines, 1, stop - 1))
        wrote == Resolve(p) # NotAFile
        left  == IF wrote THEN Store(fs, Resolve(p), body) ELSE fs
    IN  IF stop < Len(lines) THEN Outcome(127, <<>>, left)
        ELSE IF wrote THEN Outcome(0, <<>>, left)
        ELSE Outcome(1, <<>>, left)

\* Python: ord(c), for the characters of a content
Ord ==
    ("a" :> 97) @@ ("$" :> 36) @@ (NL :> 10) @@ ("E" :> 69) @@ ("O" :> 79) @@ ("F" :> 70)

\* Python: chr(b)
Chr(b) == CHOOSE c \in DOMAIN Ord : Ord[c] = b

\* Python: content.encode('utf-8'), for ASCII content
RECURSIVE Utf8Encode(_)
Utf8Encode(text) ==
    IF text = <<>> THEN <<>> ELSE <<Ord[Head(text)]>> \o Utf8Encode(Tail(text))

RECURSIVE Utf8Decode(_)
Utf8Decode(bytes) ==
    IF bytes = <<>> THEN <<>> ELSE <<Chr(Head(bytes))>> \o Utf8Decode(Tail(bytes))

\* A base64 digit is its index 0..63 in the base64 alphabet; B64Pad is the = sign.
\* None of the 65 symbols is special to the shell inside double quotes.
B64Pad == 64

\* Python: base64.b64encode(bytes)
RECURSIVE B64Encode(_)
B64Encode(bytes) ==
    IF bytes = <<>> THEN <<>>
    ELSE IF Len(bytes) = 1 THEN
        LET n == bytes[1] * 16
        IN  <<n \div 64, n % 64, B64Pad, B64Pad>>
    ELSE IF Len(bytes) = 2 THEN
        LET n == (bytes[1] * 256 + bytes[2]) * 4
        IN  <<n \div 4096, (n \div 64) % 64, n % 64, B64Pad>>
    ELSE
        LET n == (bytes[1] * 256 + bytes[2]) * 256 + bytes[3]
        IN  <<n \div 262144, (n \div 4096) % 64, (n \div 64) % 64, n % 64>>
            \o B64Encode(SubSeq(bytes, 4, Len(bytes)))

\* base64 -d
RECURSIVE B64Decode(_)
B64Decode(digits) ==
    IF Len(digits) < 4 THEN <<>>
    ELSE IF digits[3] = B64Pad THEN
        LET n == digits[1] * 64 + digits[2]
        IN  <<n \div 16>>
    ELSE IF digits[4] = B64Pad THEN
        LET n == (digits[1] * 64 + digits[2]) * 64 + digits[3]
        IN  <<n \div 1024, (n \div 4) % 256>>
    ELSE
        LET n == ((digits[1] * 64 + digits[2]) * 64 + digits[3]) * 64 + digits[4]
        IN  <<n \div 65536, (n \div 256) % 256, n % 256>>
            \o B64Decode(SubSeq(digits, 5, Len(digits)))

\* bash -c of: echo "encoded" | base64 -d > APP_PATH/p
Base64Write(fs, p, encoded) ==
    IF Resolve(p) # NotAFile
    THEN Outcome(0, <<>>, Store(fs, Resolve(p), Utf8Decode(B64Decode(encoded))))
    ELSE Outcome(1, <<>>, fs)

----------------------------------------------------------------------------
(* Path Guard.                                                             *)

\* ai_code_fixing.py: if '..' in file_path or file_path.startswith('/')
InvalidPath(file_path) ==
    Contains(file_path, <<".", ".">>) \/ StartsWith(file_path, <<"/">>)

\* container-api-ai.py: if not file_path or '..' in file_path
InvalidPathAi(file_path) ==
    file_path = <<>> \/ Contains(file_path, <<".", ".">>)

\* The paths Path Guard is specified to reject.
Unsafe(file_path) ==
    Contains(file_path, <<".", ".">>) \/ StartsWith(file_path, <<"/">>)

----------------------------------------------------------------------------
(* Backup names.                                                           *)

Digits == <<"0", "1", "2", "3", "4", "5", "6", "7", "8", "9">>

\* %H, %M, %S: two decimal digits
TwoDigits(n) == <<Digits[(n \div 10) + 1], Digits[(n % 10) + 1]>>

\* The wall clock starts one second before a full minute of the day the servers run on.
DayStart == <<"2", "0", "2", "4", "0", "1", "0", "1">>
SecondOfDay(t) == 59 + t

\* A clock that names the minute only: strftime('%Y%m%d_%H%M')
StrftimeMinutes(t) ==
    LET s == SecondOfDay(t)
    IN  DayStart \o <<"_">> \o TwoDigits((s \div 3600) % 24) \o TwoDigits((s \div 60) % 60)

\* datetime.now().strftime('%Y%m%d_%H%M%S')
Strftime(t) ==
    LET s == SecondOfDay(t)
    IN  DayStart \o <<"_">> \o TwoDigits((s \div 3600) % 24)
        \o TwoDigits((s \div 60) % 60) \o TwoDigits(s % 60)

\* f"{file_path}.backup_{timestamp}"
BackupPath(file_path, timestamp) ==
    file_path \o <<".", "b", "a", "c", "k", "u", "p", "_">> \o timestamp

----------------------------------------------------------------------------
(* What a command prints.  A stdout is its lines, each a sequence of       *)
(* tokens (a word or a number), together with what json.loads makes of it: *)
(* NotJson when it is no JSON document.                                    *)

NotJson == [t |-> "malformed"]

Word(w) == [w |-> w]
Num(n) == [n |-> n]
\* A run of more digits than int() converts (4300 by default, since Python 3.11
\* and the security releases of 3.7 to 3.10): int(match.group(1)) raises ValueError.
LongNum == [n |-> 0, digits |-> "more than 4300"]

StdOut(lines, json) == [lines |-> lines, json |-> json]

APP_PREFIX == "/var/www/html/apps-extra/openregister/"

\* One message of a PHPCS report.
Message(line, column, type, fixable) ==
    ("line" :> line) @@ ("column" :> column) @@ ("type" :> type) @@
    ("severity" :> 5) @@ ("message" :> "msg") @@ ("source" :> "PSR12") @@
    ("fixable" :> fixable)

\* One file of a PHPCS report, under its path.
FileEntry(name, errors, warnings, messages) ==
    [path |-> [dir |-> APP_PREFIX, name |-> name],
     data |-> ("errors" :> errors) @@ ("warnings" :> warnings) @@
              ("fixable" :> 0) @@ ("messages" :> messages)]

\* A PHPCS report: the JSON object with its files in the order of the document.
Report(entries) == ("files" :> entries)

\* Python: filepath.replace('/var/www/html/apps-extra/openregister/', '')
StripPrefix(path) == [dir |-> "", name |-> path.name]

\* Python: d.get(k, default)
Get(d, k, default) == IF k \in DOMAIN d THEN d[k] ELSE default

\* ai_code_fixing.py: the dict appended to issues_by_line[line]
Issue(msg) ==
    ("column" :> msg["column"]) @@ ("type" :> msg["type"]) @@
    ("severity" :> msg["severity"]) @@ ("message" :> msg["message"]) @@
    ("source" :> msg["source"]) @@ ("fixable" :> Get(msg, "fixable", FALSE))

\* container-api-ai.py: the dict appended to issues_by_line[line]
IssueAi(msg) ==
    ("column" :> msg["column"]) @@ ("type" :> msg["type"]) @@
    ("message" :> msg["message"]) @@ ("source" :> msg["source"])

\* Python: [x for x in xs if x['line'] == line]
RECURSIVE OnLine(_, _)
OnLine(messages, line) ==
    IF messages = <<>> THEN <<>>
    ELSE (IF Head(messages)["line"] = line THEN <<Head(messages)>> ELSE <<>>)
         \o OnLine(Tail(messages), line)

\* ai_code_fixing.py: for msg in messages: issues_by_line[msg['line']].append({...})
IssuesByLine(messages) ==
    [line \in {messages[i]["line"] : i \in DOMAIN messages} |->
        [i \in DOMAIN OnLine(messages, line) |-> Issue(OnLine(messages, line)[i])]]

\* container-api-ai.py: for msg in messages: issues_by_line[msg['line']].append({...})
IssuesByLineAi(messages) ==
    [line \in {messages[i]["line"] : i \in DOMAIN messages} |->
        [i \in DOMAIN OnLine(messages, line) |-> IssueAi(OnLine(messages, line)[i])]]

\* if file_data['errors'] > 0 or file_data['warnings'] > 0
HasIssues(entry) == entry.data["errors"] > 0 \/ entry.data["warnings"] > 0

\* Python: [e for e in entries if HasIssues(e)]
RECURSIVE WithIssues(_)
WithIssues(entries) ==
    IF entries = <<>> THEN <<>>
    ELSE (IF HasIssues(Head(entries)) THEN <<Head(entries)>> ELSE <<>>)
         \o WithIssues(Tail(entries))

RECURSIVE SumOf(_, _)
SumOf(entries, key) ==
    IF entries = <<>> THEN 0 ELSE Head(entries).data[key] + SumOf(Tail(entries), key)

\* ai_code_fixing.py process_phpcs_result, from json.loads(json_result.stdout) on
process_phpcs_result(stdout) ==
    IF stdout.json = NotJson
    THEN ("phpcs_issues" :> <<>>) @@ ("error" :> "Failed to parse PHPCS output")
    ELSE
        LET listed == WithIssues(Get(stdout.json, "files", <<>>))
            issues_by_file ==
                [i \in DOMAIN listed |->
                    ("file" :> listed[i].path) @@
                    ("relative_path" :> StripPrefix(listed[i].path)) @@
                    ("errors" :> listed[i].data["errors"]) @@
                    ("warnings" :> listed[i].data["warnings"]) @@
                    ("fixable" :> listed[i].data["fixable"]) @@
                    ("issues_by_line" :>
                        IssuesByLine(Get(listed[i].data, "messages", <<>>)))]
        IN  ("phpcs_issues" :> issues_by_file) @@
            ("totals" :>
                (("files_with_issues" :> Len(issues_by_file)) @@
                 ("total_errors" :> SumOf(listed, "errors")) @@
                 ("total_warnings" :> SumOf(listed, "warnings")))) @@
            ("ready_for_ai_fixing" :> (Len(issues_by_file) > 0))

\* ai_code_fixing.py process_phpcs_result: except (..., subprocess.TimeoutExpired, Exception)
process_phpcs_result_failed ==
    ("phpcs_issues" :> <<>>) @@ ("error" :> "Failed to parse PHPCS output")

\* container-api-ai.py process_phpcs_detailed
process_phpcs_detailed(stdout) ==
    IF stdout.json = NotJson
    THEN ("error" :> "Failed to parse PHPCS")
    ELSE
        LET listed == WithIssues(Get(stdout.json, "files", <<>>))
            issues_by_file ==
                [i \in DOMAIN listed |->
                    ("file" :> StripPrefix(listed[i].path)) @@
                    ("errors" :> listed[i].data["errors"]) @@
                    ("warnings" :> listed[i].data["warnings"]) @@
                    ("issues_by_line" :>
                        IssuesByLineAi(Get(listed[i].data, "messages", <<>>)))]
        IN  ("phpcs_issues" :> issues_by_file) @@
            ("totals" :>
                (("files_with_issues" :> Len(issues_by_file)) @@
                 ("total_errors" :> SumOf(listed, "errors")) @@
                 ("total_warnings" :> SumOf(listed, "warnings"))))

ReportFiles ==
    ("json" :> "phpqa/phpqa.json") @@ ("html" :> "phpqa/phpqa-offline.html") @@
    ("metrics" :> "phpqa/phpmetrics/")

\* container-api.py process_phpqa_result, from json.loads(json_result.stdout) on
process_phpqa_result(stdout) ==
    IF stdout.json = NotJson
    THEN ("phpqa_report" :> ("error" :> "Failed to parse phpqa.json"))
    ELSE ("phpqa_report" :> stdout.json) @@ ("report_files" :> ReportFiles)

\* container-api.py process_phpqa_result: except (..., subprocess.TimeoutExpired, Exception)
process_phpqa_result_failed ==
    ("phpqa_report" :> ("error" :> "Failed to parse phpqa.json"))

\* Python: 'Fixed' in line or 'fixed' in line
MentionsFixed(line) ==
    \E i \in DOMAIN line : line[i] \in {Word("Fixed"), Word("fixed")}

IsNum(tok) == "n" \in DOMAIN tok

\* Python: int(s) raises ValueError
IntRaises(tok) == "digits" \in DOMAIN tok

FileWords == {Word("file"), Word("files"), Word("file(s)")}

\* Python: re.search(r'(\d+)\s+file', line): the places where it matches
FileCounts(line) ==
    {i \in 1..(Len(line) - 1) : IsNum(line[i]) /\ line[i + 1] \in FileWords}

Min(S) == CHOOSE x \in S : \A y \in S : x <= y

\* container-api.py process_cs_fix_result: the loop over output_lines, files_fixed so far
RECURSIVE FilesFixed(_, _)
FilesFixed(lines, files_fixed) ==
    IF lines = <<>> THEN files_fixed
    ELSE IF MentionsFixed(Head(lines)) /\ FileCounts(Head(lines)) # {}
         THEN FilesFixed(Tail(lines), Head(lines)[Min(FileCounts(Head(lines)))].n)
         ELSE FilesFixed(Tail(lines), files_fixed)

\* process_cs_fix_result raises: int(match.group(1)) on some matching line
CsFixRaises(lines) ==
    \E i \in DOMAIN lines :
        /\ MentionsFixed(lines[i])
        /\ FileCounts(lines[i]) # {}
        /\ IntRaises(lines[i][Min(FileCounts(lines[i]))])

\* container-api.py process_cs_fix_result
process_cs_fix_result(stdout) ==
    LET files_fixed == FilesFixed(stdout.lines, 0)
    IN  ("files_fixed" :> files_fixed) @@
        ("message" :> IF files_fixed > 0 THEN "Fixed N file(s)" ELSE "No files needed fixing")

\* The whole output as one run of tokens: a line break is white space to \s+.
RECURSIVE Flatten(_)
Flatten(lines) ==
    IF lines = <<>> THEN <<>> ELSE Head(lines) \o Flatten(Tail(lines))

\* Python: re.search(label + r'\s+(\d+)', output): the places where it matches
MetricHits(toks, label) ==
    {i \in 1..(Len(toks) - 1) : toks[i] = Word(label) /\ IsNum(toks[i + 1])}

\* Python: int(match.group(1)) if match else 0
Metric(toks, label) ==
    LET hits == MetricHits(toks, label)
    IN  IF hits = {} THEN 0 ELSE toks[Min(hits) + 1].n

\* process_test_result raises: int(match.group(1)) of one of the three matches
TestRaises(lines) ==
    LET toks == Flatten(lines)
    IN  \E label \in {"Tests:", "Assertions:", "Failures:"} :
            /\ MetricHits(toks, label) # {}
            /\ IntRaises(toks[Min(MetricHits(toks, label)) + 1])

\* A process_test_result that reports the verdict under 'status'
process_test_result_status(stdout, returncode) ==
    ("tests_run" :> Metric(Flatten(stdout.lines), "Tests:")) @@
    ("assertions" :> Metric(Flatten(stdout.lines), "Assertions:")) @@
    ("failures" :> Metric(Flatten(stdout.lines), "Failures:")) @@
    ("status" :> IF returncode = 0 THEN "passed" ELSE "failed")

\* container-api.py process_test_result
process_test_result(stdout, returncode) ==
    ("tests_run" :> Metric(Flatten(stdout.lines), "Tests:")) @@
    ("assertions" :> Metric(Flatten(stdout.lines), "Assertions:")) @@
    ("failures" :> Metric(Flatten(stdout.lines), "Failures:")) @@
    ("success" :> (returncode = 0))

----------------------------------------------------------------------------
(* Requests, responses and the handler's position.                         *)

\* A response: send_response(code), and the JSON body written, if any.
Response(code, body) == [code |-> code, hasBody |-> TRUE, body |-> body]

\* send_response(code); end_headers() and nothing written
BareResponse(code) == [code |-> code, hasBody |-> FALSE, body |-> EmptyDict]

NoResp == [code |-> 0, hasBody |-> FALSE, body |-> EmptyDict]

\* subprocess.run(..., timeout=timeout); NoTimeout stands for no timeout argument
NoTimeout == 0
Call(kind, timeout) == [kind |-> kind, timeout |-> timeout]
NoCall == Call("none", NoTimeout)

\* A step of a handler: it has answered, or it blocks on an external call.
Done(rsp) == [next |-> "idle", resp |-> rsp, call |-> NoCall, local |-> EmptyDict]
Block(position, c, loc) == [next |-> position, resp |-> NoResp, call |-> c, local |-> loc]

\* The request body: absent (Content-Length 0), not JSON, or a JSON object.
NoBody == [kind |-> "none", obj |-> EmptyDict]
BadJson == [kind |-> "invalid", obj |-> EmptyDict]
JsonBody(obj) == [kind |-> "object", obj |-> obj]

\* The JSON objects with any of the keys file, content, issues.
Objects(paths, contents, issues) ==
    LET opt(k, S) == {EmptyDict} \cup {(k :> v) : v \in S}
    IN  {f @@ c @@ i : f \in opt("file", paths), c \in opt("content", contents),
                       i \in opt("issues", issues)}

Request(server, method, route, body) ==
    [server |-> server, method |-> method, route |-> route, body |-> body]

\* datetime.utcnow().isoformat() + "Z"
Timestamp(t) == t

\* str(e) of an exception
StrE == "str(e)"

----------------------------------------------------------------------------
(* File operations of container-api.py: ai_code_fixing.py's handlers.      *)

\* read_file_handler, up to the call of the Execution Bridge: the error returned, if any
read_file_check(request_body) ==
    IF "file" \notin DOMAIN request_body
    THEN ("error" :> "Missing 'file' parameter in request body")
    ELSE IF InvalidPath(request_body["file"])
    THEN ("error" :> "Invalid file path")
    ELSE EmptyDict

\* write_file_handler, up to the call of the Execution Bridge
write_file_check(request_body) ==
    IF "file" \notin DOMAIN request_body \/ "content" \notin DOMAIN request_body
    THEN ("error" :> "Missing 'file' or 'content' parameter")
    ELSE IF InvalidPath(request_body["file"])
    THEN ("error" :> "Invalid file path")
    ELSE EmptyDict

\* backup_file_handler, up to the call of the Execution Bridge
backup_file_check(request_body) ==
    IF "file" \notin DOMAIN request_body
    THEN ("error" :> "Missing 'file' parameter")
    ELSE IF InvalidPath(request_body["file"])
    THEN ("error" :> "Invalid file path")
    ELSE EmptyDict

\* read_file_handler, from the result of the Execution Bridge on
read_file_result(file_path, result) ==
    IF result.returncode # 0
    THEN ("error" :> "File not found or not readable") @@ ("stderr" :> "stderr")
    ELSE ("file" :> file_path) @@ ("content" :> result.stdout) @@
         ("size" :> Len(result.stdout)) @@ ("lines" :> Len(SplitLines(result.stdout)))

\* write_file_handler, from the result of the Execution Bridge on
write_file_result(file_path, content, result) ==
    IF result.returncode # 0
    THEN ("error" :> "Failed to write file") @@ ("stderr" :> "stderr")
    ELSE ("file" :> file_path) @@ ("bytes_written" :> Len(content)) @@
         ("lines_written" :> Len(SplitLines(content))) @@ ("status" :> "success")

\* backup_file_handler, from the result of the Execution Bridge on
backup_file_result(file_path, backup_path, timestamp, result) ==
    IF result.returncode # 0
    THEN ("error" :> "Failed to create backup") @@ ("stderr" :> "stderr")
    ELSE ("original_file" :> file_path) @@ ("backup_file" :> backup_path) @@
         ("timestamp" :> timestamp) @@ ("status" :> "success")

\* container-api.py _handle_file_operation: response_data and status_code
FileOperationResponse(operation, result, t) ==
    Response(IF "error" \notin DOMAIN result THEN 200 ELSE 400,
             Update(("timestamp" :> Timestamp(t)) @@ ("operation" :> operation) @@
                    ("container" :> "master-nextcloud-1"),
                    result))

\* The handler's locals across the call of the Execution Bridge.
FileLocals(operation, request_body, t) ==
    ("file_path" :> request_body["file"]) @@
    (IF operation = "write-file" THEN ("content" :> request_body["content"]) ELSE EmptyDict) @@
    (IF operation = "backup-file"
     THEN ("timestamp" :> Strftime(t)) @@
          ("backup_path" :> BackupPath(request_body["file"], Strftime(t)))
     ELSE EmptyDict)

\* container-api.py _handle_file_operation, up to the call of the Execution Bridge
HandleFileOperation(operation, body, t) ==
    IF body.kind = "none"
    THEN Done(Response(400, ("error" :> "Request body required")))
    ELSE IF body.kind = "invalid"
    THEN Done(Response(400, ("error" :> "Invalid JSON in request body")))
    ELSE
        LET check == CASE operation = "read-file" -> read_file_check(body.obj)
                       [] operation = "write-file" -> write_file_check(body.obj)
                       [] operation = "backup-file" -> backup_file_check(body.obj)
        IN  IF "error" \in DOMAIN check
            THEN Done(FileOperationResponse(operation, check, t))
            ELSE Block("file", Call(operation, 10), FileLocals(operation, body.obj, t))

\* What the handler's docker exec does in the target.
FileCommand(operation, loc, fs) ==
    CASE operation = "read-file" -> Cat(fs, loc["file_path"])
      [] operation = "write-file" -> HereDocWrite(fs, loc["file_path"], loc["content"])
      [] operation = "backup-file" -> Cp(fs, loc["file_path"], loc["backup_path"])

\* The handler's result dict once subprocess.run has returned.
FileResult(operation, loc, result) ==
    CASE operation = "read-file" -> read_file_result(loc["file_path"], result)
      [] operation = "write-file" ->
            write_file_result(loc["file_path"], loc["content"], result)
      [] operation = "backup-file" ->
            backup_file_result(loc["file_path"], loc["backup_path"], loc["timestamp"], result)

\* except Exception as e: return {"error": str(e)}, for a timeout as for a failed launch
FileOperationFailed(operation, t) ==
    FileOperationResponse(operation, ("error" :> StrE), t)

----------------------------------------------------------------------------
(* File operations of container-api-ai.py.                                 *)

\* _send_json(data)
SendJson(data) == Response(200, data)

\* _send_error(code, message)
SendError(code, message) == Response(code, ("error" :> message))

\* body.get('file'): None and the empty string are both falsy, and are one value here
FilePathAi(obj) == Get(obj, "file", <<>>)

\* _read_file, _write_file, _backup_file: if not file_path or '..' in file_path
path_check_ai(file_path) ==
    IF InvalidPathAi(file_path) THEN ("error" :> "Invalid file path") ELSE EmptyDict

\* _read_file, from the result of the Execution Bridge on
read_file_result_ai(file_path, result) ==
    IF result.returncode # 0
    THEN ("error" :> "File not found")
    ELSE ("file" :> file_path) @@ ("content" :> result.stdout) @@
         ("size" :> Len(result.stdout)) @@ ("lines" :> Len(SplitLines(result.stdout)))

\* _write_file, from the result of the Execution Bridge on
write_file_result_ai(file_path, content, result) ==
    IF result.returncode # 0
    THEN ("error" :> "Failed to write file")
    ELSE ("file" :> file_path) @@ ("bytes_written" :> Len(content)) @@
         ("status" :> "success")

\* _backup_file, from the result of the Execution Bridge on
backup_file_result_ai(file_path, backup_path, timestamp, result) ==
    IF result.returncode # 0
    THEN ("error" :> "Failed to create backup")
    ELSE ("original" :> file_path) @@ ("backup" :> backup_path) @@
         ("timestamp" :> timestamp)

FileLocalsAi(operation, obj, t) ==
    ("file_path" :> FilePathAi(obj)) @@
    (IF operation = "write-file"
     THEN ("content" :> obj["content"]) @@
          ("encoded" :> B64Encode(Utf8Encode(obj["content"])))
     ELSE EmptyDict) @@
    (IF operation = "backup-file"
     THEN ("timestamp" :> Strftime(t)) @@
          ("backup_path" :> BackupPath(FilePathAi(obj), Strftime(t)))
     ELSE EmptyDict)

\* container-api-ai.py _handle_file_operation, up to the call of the Execution Bridge:
\* json.loads raises on an absent or malformed body, and content.encode on a missing
\* content; both end in the except branch.
HandleFileOperationAi(operation, body, t) ==
    IF body.kind # "object"
    THEN Done(SendError(500, StrE))
    ELSE IF "error" \in DOMAIN path_check_ai(FilePathAi(body.obj))
    THEN Done(SendJson(path_check_ai(FilePathAi(body.obj))))
    ELSE IF operation = "write-file" /\ "content" \notin DOMAIN body.obj
    THEN Done(SendError(500, StrE))
    ELSE Block("file", Call(operation, 10), FileLocalsAi(operation, body.obj, t))

FileCommandAi(operation, loc, fs) ==
    CASE operation = "read-file" -> Cat(fs, loc["file_path"])
      [] operation = "write-file" -> Base64Write(fs, loc["file_path"], loc["encoded"])
      [] operation = "backup-file" -> Cp(fs, loc["file_path"], loc["backup_path"])

FileResultAi(operation, loc, result) ==
    CASE operation = "read-file" -> read_file_result_ai(loc["file_path"], result)
      [] operation = "write-file" ->
            write_file_result_ai(loc["file_path"], loc["content"], result)
      [] operation = "backup-file" ->
            backup_file_result_ai(loc["file_path"], loc["backup_path"],
                                  loc["timestamp"], result)

----------------------------------------------------------------------------
(* The AI-fix workflow of container-api-ai.py.                             *)

Fence == <<BT, BT, BT>>
FencePhp == Fence \o <<"p", "h", "p">>

\* _handle_ai_fix: Extract code from markdown if present
ExtractFixedCode(fixed_code) ==
    IF Contains(fixed_code, FencePhp)
    THEN Strip(BeforeFirst(SplitSecond(fixed_code, FencePhp), Fence))
    ELSE IF Contains(fixed_code, Fence)
    THEN Strip(BeforeFirst(SplitSecond(fixed_code, Fence), Fence))
    ELSE fixed_code

\* Python truth of body.get(k): a missing key, an empty string and an empty list are falsy
Truthy(obj, k) == k \in DOMAIN obj /\ obj[k] # <<>>

\* A validation that forgets the issues: if not all([file_path, content])
MissingFileOrContent(obj) ==
    ~(Truthy(obj, "file") /\ Truthy(obj, "content"))

\* if not all([file_path, issues, content])
MissingFields(obj) ==
    ~(Truthy(obj, "file") /\ Truthy(obj, "issues") /\ Truthy(obj, "content"))

\* An _handle_ai_fix that first fetches the file through the Execution Bridge
HandleAiFixThroughBridge(body) ==
    IF body.kind # "object"
    THEN Done(SendError(500, StrE))
    ELSE IF MissingFields(body.obj)
    THEN Done(SendError(400, "Missing required fields"))
    ELSE Block("file", Call("read-file", 10),
               ("file_path" :> body.obj["file"]) @@ ("content" :> body.obj["content"]))

\* _handle_ai_fix, up to requests.post
HandleAiFix(body) ==
    IF body.kind # "object"
    THEN Done(SendError(500, StrE))
    ELSE IF MissingFields(body.obj)
    THEN Done(SendError(400, "Missing required fields"))
    ELSE Block("model", Call("generate", 60),
               ("file_path" :> body.obj["file"]) @@ ("content" :> body.obj["content"]))

\* What the model service answers: an HTTP status and, in the JSON, the generated text.
ModelReply(status_code, json) == [status_code |-> status_code, json |-> json]

\* _handle_ai_fix, from the reply of the model service on
AiFixResponse(loc, response) ==
    IF response.status_code # 200
    THEN SendError(500, "Ollama API error")
    ELSE
        LET fixed_code == ExtractFixedCode(Get(response.json, "response", <<>>))
        IN  SendJson(("file" :> loc["file_path"]) @@
                     ("original_size" :> Len(loc["content"])) @@
                     ("fixed_size" :> Len(fixed_code)) @@
                     ("fixed_code" :> fixed_code) @@
                     ("status" :> "success"))

----------------------------------------------------------------------------
(* Registered commands.                                                    *)

\* A status that also looks at nothing: always "success"
StatusAlwaysSuccess(returncode) == "success"

\* "success" if result.returncode == 0 else "completed_with_errors"
Status(returncode) == IF returncode = 0 THEN "success" ELSE "completed_with_errors"

\* phpqa-api.py _run_phpqa: "success" if result.returncode == 0 else "completed_with_issues"
StatusPhpqa(returncode) == IF returncode = 0 THEN "success" ELSE "completed_with_issues"

\* _execute_command and _run_*: the first subprocess.run, with the command's timeout
ExecuteCommand(cmd_config) ==
    Block("cmd", Call("command", cmd_config.timeout), ("command" :> cmd_config.name))

\* container-api.py _execute_command: Build base response
ResponseData(cmd_config, returncode, stdout, t) ==
    ("timestamp" :> Timestamp(t)) @@ ("command" :> cmd_config.name) @@
    ("full_command" :> cmd_config.command) @@ ("status" :> Status(returncode)) @@
    ("exit_code" :> returncode) @@ ("output" :> stdout) @@
    ("container" :> "master-nextcloud-1")

\* The post-processor raises on the output of the command.
PostProcessorRaises(pp, stdout) ==
    \/ pp = "process_cs_fix_result" /\ CsFixRaises(stdout.lines)
    \/ pp = "process_test_result" /\ TestRaises(stdout.lines)

\* An _execute_command without the try around the post-processor: its exception
\* reaches the outer except Exception
CommandReturnedUncaught(cmd_config, returncode, stdout, t) ==
    LET response_data == ResponseData(cmd_config, returncode, stdout, t)
        pp == cmd_config.post_processor
    IN  CASE pp = None -> Done(Response(200, response_data))
          [] pp \in {"process_cs_fix_result", "process_test_result"} ->
                IF PostProcessorRaises(pp, stdout)
                THEN Done(Response(500, ("error" :> StrE) @@ ("command" :> cmd_config.name)))
                ELSE Done(Response(200, Update(response_data,
                        IF pp = "process_cs_fix_result"
                        THEN process_cs_fix_result(stdout)
                        ELSE process_test_result(stdout, returncode))))
          [] pp = "process_phpqa_result" ->
                Block("post", Call("report", 10), ("response_data" :> response_data))
          [] pp = "process_phpcs_result" ->
                Block("post", Call("phpcs", 60), ("response_data" :> response_data))

\* container-api.py _execute_command, from the result of the command on: the
\* post-processors of phpqa and phpcs-detailed call the Execution Bridge again;
\* except Exception as e: response_data["post_processor_error"] = str(e)
CommandReturned(cmd_config, returncode, stdout, t) ==
    LET response_data == ResponseData(cmd_config, returncode, stdout, t)
        pp == cmd_config.post_processor
    IN  CASE pp = None -> Done(Response(200, response_data))
          [] pp \in {"process_cs_fix_result", "process_test_result"} ->
                IF PostProcessorRaises(pp, stdout)
                THEN Done(Response(200, Update(response_data,
                                               ("post_processor_error" :> StrE))))
                ELSE Done(Response(200, Update(response_data,
                        IF pp = "process_cs_fix_result"
                        THEN process_cs_fix_result(stdout)
                        ELSE process_test_result(stdout, returncode))))
          [] pp = "process_phpqa_result" ->
                Block("post", Call("report", 10), ("response_data" :> response_data))
          [] pp = "process_phpcs_result" ->
                Block("post", Call("phpcs", 60), ("response_data" :> response_data))

\* container-api.py: response_data.update(extra_data) and the 200, once the
\* post-processor's own call has returned
PostProcessed(cmd_config, loc, stdout) ==
    LET extra_data == IF cmd_config.post_processor = "process_phpqa_result"
                      THEN process_phpqa_result(stdout)
                      ELSE process_phpcs_result(stdout)
    IN  Response(200, Update(loc["response_data"], extra_data))

\* container-api.py: the post-processor's own call timed out or could not be launched
PostFailed(cmd_config, loc) ==
    LET extra_data == IF cmd_config.post_processor = "process_phpqa_result"
                      THEN process_phpqa_result_failed
                      ELSE process_phpcs_result_failed
    IN  Response(200, Update(loc["response_data"], extra_data))

\* container-api.py _execute_command: except subprocess.TimeoutExpired
CommandTimedOut(cmd_config) ==
    Response(408, ("error" :> "Request timeout") @@ ("command" :> cmd_config.name))

\* container-api.py _execute_command: except Exception as e
CommandFailed(cmd_config) ==
    Response(500, ("error" :> StrE) @@ ("command" :> cmd_config.name))

\* container-api-ai.py _execute_command, from the result of the command on
CommandReturnedAi(cmd_name, cmd_config, returncode, stdout, t) ==
    LET response == ("timestamp" :> Timestamp(t)) @@ ("command" :> cmd_name) @@
                    ("status" :> Status(returncode)) @@ ("exit_code" :> returncode) @@
                    ("output" :> stdout)
    IN  IF cmd_config.post_processor = "process_phpcs_detailed"
        THEN Done(SendJson(Update(response, process_phpcs_detailed(stdout))))
        ELSE Done(SendJson(response))

\* phpqa-api.py _run_phpqa, from the result of composer phpqa on: the report is
\* fetched by a second subprocess.run, which has no timeout
RunPhpqaReturned(returncode, stdout) ==
    Block("post", Call("report", NoTimeout),
          ("returncode" :> returncode) @@ ("stdout" :> stdout))

\* phpqa-api.py _run_phpqa, from the result of the second call on
RunPhpqaResponse(loc, report, t) ==
    LET phpqa_json == IF report.json = NotJson
                      THEN ("error" :> "Failed to parse phpqa.json")
                      ELSE report.json
    IN  Response(200,
            ("timestamp" :> Timestamp(t)) @@ ("status" :> StatusPhpqa(loc["returncode"])) @@
            ("exit_code" :> loc["returncode"]) @@ ("command_output" :> loc["stdout"]) @@
            ("phpqa_report" :> phpqa_json) @@ ("report_files" :> ReportFiles))

\* phpqa-api.py _run_cs_fix, from the result of composer cs:fix on; a ValueError of
\* int() ends in except Exception
RunCsFixResponse(returncode, stdout, t) ==
    LET files_fixed == FilesFixed(stdout.lines, 0)
    IN  IF CsFixRaises(stdout.lines)
        THEN Response(500, ("error" :> StrE))
        ELSE Response(200,
            ("timestamp" :> Timestamp(t)) @@ ("action" :> "cs:fix") @@
            ("status" :> Status(returncode)) @@ ("exit_code" :> returncode) @@
            ("files_fixed" :> files_fixed) @@ ("command_output" :> stdout) @@
            ("message" :> IF files_fixed > 0 THEN "Fixed N file(s)"
                          ELSE "No files needed fixing"))

----------------------------------------------------------------------------
(* Routing.                                                                *)

\* container-api.py do_POST
DoPost(cmds, route, body, t) ==
    IF route \in FileOperations
    THEN HandleFileOperation(route, body, t)
    ELSE IF route \in DOMAIN cmds
    THEN ExecuteCommand(cmds[route])
    ELSE Done(Response(404, ("error" :> "Unknown command") @@
                            ("available_commands" :> AvailableCommands(cmds))))

\* A do_POST without the file-operation branch: the names go to the registry lookup
DoPostAiRegistryOnly(cmds, route, body, t) ==
    IF route = "ai-fix-code"
    THEN HandleAiFix(body)
    ELSE IF route \in DOMAIN cmds
    THEN ExecuteCommand(cmds[route])
    ELSE Done(SendError(404, "Unknown endpoint"))

\* container-api-ai.py do_POST
DoPostAi(cmds, route, body, t) ==
    IF route \in FileOperations
    THEN HandleFileOperationAi(route, body, t)
    ELSE IF route = "ai-fix-code"
    THEN HandleAiFix(body)
    ELSE IF route \in DOMAIN cmds
    THEN ExecuteCommand(cmds[route])
    ELSE Done(SendError(404, "Unknown endpoint"))

\* phpqa-api.py do_POST
DoPostPhpqa(cmds, route) ==
    IF route = "phpqa" THEN ExecuteCommand(cmds["phpqa"])
    ELSE IF route = "cs-fix" THEN ExecuteCommand(cmds["cs-fix"])
    ELSE Done(BareResponse(404))

\* endpoints of the status page: "POST /name" stands as name
Endpoints(cmds) == [n \in DOMAIN cmds |-> cmds[n].description]

\* container-api-ai.py do_GET: endpoints.update({...})
EndpointsAi(cmds) ==
    Update(Endpoints(cmds),
           ("read-file" :> "Read a file") @@ ("write-file" :> "Write a file") @@
           ("backup-file" :> "Backup a file") @@ ("ai-fix-code" :> "Fix code with AI"))

\* container-api.py do_GET; the route "" is the path /
DoGet(cmds, route) ==
    IF route = ""
    THEN Done(Response(200, ("service" :> "OpenRegister Container API") @@
                            ("version" :> "2.0.0") @@ ("status" :> "running") @@
                            ("endpoints" :> Endpoints(cmds))))
    ELSE Done(BareResponse(404))

\* container-api-ai.py do_GET
DoGetAi(cmds, route) ==
    IF route = ""
    THEN Done(SendJson(("service" :> "OpenRegister AI Code Fixing API") @@
                       ("version" :> "3.0.0") @@ ("status" :> "running") @@
                       ("endpoints" :> EndpointsAi(cmds))))
    ELSE Done(SendError(404, "Not found"))

\* phpqa-api.py do_GET
DoGetPhpqa(cmds, route) ==
    IF route = ""
    THEN Done(Response(200, ("service" :> "OpenRegister PHPQA API") @@
                            ("status" :> "running") @@ ("endpoints" :> Endpoints(cmds))))
    ELSE Done(BareResponse(404))

\* The handler of a request, up to its answer or its first blocking call.
Handle(r, cmds, t) ==
    CASE r.server = CONTAINER_API /\ r.method = "POST" -> DoPost(cmds, r.route, r.body, t)
      [] r.server = CONTAINER_API /\ r.method = "GET" -> DoGet(cmds, r.route)
      [] r.server = CONTAINER_API_AI /\ r.method = "POST" -> DoPostAi(cmds, r.route, r.body, t)
      [] r.server = CONTAINER_API_AI /\ r.method = "GET" -> DoGetAi(cmds, r.route)
      [] r.server = PHPQA_API /\ r.method = "POST" -> DoPostPhpqa(cmds, r.route)
      [] r.server = PHPQA_API /\ r.method = "GET" -> DoGetPhpqa(cmds, r.route)

----------------------------------------------------------------------------
(* The inputs.                                                             *)

\* Exit codes of a command in the target.
ExitCodes == {0, 1, 2}

OutPlain == StdOut(<<>>, NotJson)
OutFixed == StdOut(<< <<Word("Fixed"), Num(2), Word("files")>> >>, NotJson)
OutTests == StdOut(<< <<Word("Tests:"), Num(3), Word("Assertions:"), Num(4)>> >>, NotJson)
OutEmptyJson == StdOut(<<>>, EmptyDict)
OutReport ==
    StdOut(<<>>, Report(<<FileEntry("lib/A.php", 1, 0, <<Message(1, 1, "ERROR", TRUE)>>),
                          FileEntry("lib/B.php", 0, 0, <<>>)>>))

OutLong ==
    StdOut(<< <<Word("Fixed"), LongNum, Word("files")>>, <<Word("Tests:"), LongNum>> >>,
           NotJson)

\* What a command may print.
Outputs == {OutPlain, OutFixed, OutTests, OutEmptyJson, OutReport, OutLong}

\* The registered names of all servers, the file operations, ai-fix-code, the
\* status page and a name that is none of them.
Routes ==
    UNION {DOMAIN COMMANDS[s] : s \in Servers} \cup FileOperations
    \cup {"ai-fix-code", "does-not-exist", ""}

\* The bodies a handler is sent: none, malformed, and every JSON object of objs.
Bodies(objs) == {NoBody, BadJson} \cup {JsonBody(o) : o \in objs}

\* The requests: those POSTed to the file operations with fileBodies, to ai-fix-code
\* with fixBodies and to the other routes with no body (no other handler reads
\* it), and the GETs of getRoutes.
Requests(servers, routes, fileBodies, fixBodies, getRoutes) ==
    {Request(s, "POST", rt, b) : s \in servers, rt \in routes \cap FileOperations,
                                 b \in fileBodies}
    \cup {Request(s, "POST", "ai-fix-code", b) : s \in servers,
                                 b \in IF "ai-fix-code" \in routes THEN fixBodies ELSE {}}
    \cup {Request(s, "POST", rt, NoBody) : s \in servers, rt \in routes}
    \cup {Request(s, "GET", rt, NoBody) : s \in servers, rt \in getRoutes}

\* Paths of the dispatch specification: a plain name, a parent-directory path, an
\* absolute path, the empty path.
DispatchPaths == {<<"a">>, <<".", ".">>, <<"/", "a">>, <<>>}

DispatchRequests ==
    Requests(Servers, Routes,
             Bodies(Objects(DispatchPaths, {<<"a">>}, {})),
             Bodies(Objects({<<"a">>}, {<<"a">>}, {<<>>, <<"issue">>})),
             {"", "does-not-exist"})

DispatchReplies ==
    {ModelReply(200, ("response" :> <<"x">>)), ModelReply(200, EmptyDict),
     ModelReply(500, EmptyDict)}

----------------------------------------------------------------------------
(* The state machine.                                                      *)

NoRequest == Request("none", "none", "", NoBody)
\* The histories, switched on or off, with nothing recorded.
NoWrite(on) ==
    [on |-> on, server |-> "none", file |-> <<>>, content |-> <<>>, written |-> FALSE]
NoBackups(on) == [on |-> on, log |-> <<>>]

NoReply == ModelReply(0, EmptyDict)

\* How a call of the Execution Bridge ended; returncode holds the exit code, if any.
NotEnded == [how |-> "none", returncode |-> {}, report |-> {}]
Returned(returncode) == [how |-> "returned", returncode |-> {returncode}, report |-> {}]
TimedOut(before) == [how |-> "timeout", returncode |-> before.returncode, report |-> {}]
Raised(before) == [how |-> "raised", returncode |-> before.returncode, report |-> {}]

\* The target starts with one file.
InitialFiles == (<<"a">> :> <<"a">>)

\* The request threads of api_server.py.
Workers == 1..MaxWorkers

\* A thread that handles no request: its position, the route of its request, the
\* pages still to process, the temporary file it made, what load_dolphin_model
\* returned to it, and the status code it answered with (0 while it has not).
IdleWorker ==
    [pc |-> "idle", route |-> "none", pages |-> 0, path |-> {}, loaded |-> {}, code |-> 0]

\* dolphin_model = None
NoModel == [loaded |-> FALSE, on_gpu |-> FALSE, in_eval |-> FALSE]

\* AutoModel.from_pretrained(...): a model in memory, on the CPU, in training mode
FromPretrained == [loaded |-> TRUE, on_gpu |-> FALSE, in_eval |-> FALSE]

\* api_server.py at startup: no thread busy, lines 25-26, no temporary file.
DolphinStarted ==
    /\ workers = [w \in Workers |-> IdleWorker]
    /\ dolphin_model = NoModel
    /\ dolphin_processor = None
    /\ tmpfiles = {}
    /\ accepted = 0
    /\ loads = [model |-> 0, processor |-> 0]

\* The servers are up and idle.
Started ==
    /\ pc = "idle"
    /\ req = NoRequest
    /\ call = NoCall
    /\ local = EmptyDict
    /\ resp = NoResp
    /\ files = InitialFiles
    /\ clock = 0
    /\ bridgeCalls = 0
    /\ modelCalls = 0
    /\ commands = COMMANDS
    /\ ended = NotEnded
    /\ reply = NoReply
    /\ DolphinStarted

Init ==
    /\ cuda_available = FALSE
    /\ Started
    /\ lastWrite = NoWrite(FALSE)
    /\ backups = NoBackups(FALSE)

\* The handler moves on by one step; a call it blocks on starts now.
Take(step) ==
    /\ pc' = step.next
    /\ resp' = step.resp
    /\ local' = step.local
    /\ call' = IF step.next = "idle" THEN NoCall ELSE step.call @@ ("started" :> clock)

\* The table of the server that handles req.
Config == commands[req.server][req.route]

\* A do_POST that takes the name it served out of the table of its server.
ReceiveUnregistering(r) ==
    /\ pc = "idle"
    /\ req' = r
    /\ LET step == Handle(r, commands[r.server], clock)
       IN  /\ Take(step)
           /\ bridgeCalls' = IF step.next \in {"cmd", "file"} THEN 1 ELSE 0
           /\ modelCalls' = IF step.next = "model" THEN 1 ELSE 0
    /\ commands' = [commands EXCEPT
                        ![r.server] = [n \in DOMAIN @ \ {r.route} |-> @[n]]]
    /\ ended' = NotEnded
    /\ reply' = NoReply
    /\ UNCHANGED <<files, clock, lastWrite, backups>>
    /\ UNCHANGED dolphinVars

\* A request arrives and is handled up to its answer or its first blocking call.
Receive(r) ==
    /\ pc = "idle"
    /\ req' = r
    /\ LET step == Handle(r, commands[r.server], clock)
       IN  /\ Take(step)
           /\ bridgeCalls' = IF step.next \in {"cmd", "file"} THEN 1 ELSE 0
           /\ modelCalls' = IF step.next = "model" THEN 1 ELSE 0
    /\ ended' = NotEnded
    /\ reply' = NoReply
    /\ UNCHANGED <<files, clock, commands, lastWrite, backups>>
    /\ UNCHANGED dolphinVars

\* The command's docker exec returns in time.  What the command itself does to
\* the files of the target is not modelled; the write history is forgotten.
CommandReturns(returncode, stdout) ==
    /\ pc = "cmd"
    /\ LET step ==
            CASE req.server = CONTAINER_API ->
                    CommandReturned(Config, returncode, stdout, clock)
              [] req.server = CONTAINER_API_AI ->
                    CommandReturnedAi(req.route, Config, returncode, stdout, clock)
              [] req.server = PHPQA_API ->
                    IF req.route = "phpqa"
                    THEN RunPhpqaReturned(returncode, stdout)
                    ELSE Done(RunCsFixResponse(returncode, stdout, clock))
       IN  /\ Take(step)
           /\ bridgeCalls' = IF step.next = "post" THEN bridgeCalls + 1 ELSE bridgeCalls
    /\ lastWrite' = NoWrite(lastWrite.on)
    /\ ended' = Returned(returncode)
    /\ UNCHANGED <<req, files, clock, modelCalls, commands, backups, reply>>
    /\ UNCHANGED dolphinVars

\* except subprocess.TimeoutExpired, around the command
CommandTimesOut ==
    /\ pc = "cmd"
    /\ call.timeout # NoTimeout
    /\ Take(Done(CASE req.server = CONTAINER_API -> CommandTimedOut(Config)
                   [] req.server = CONTAINER_API_AI -> SendError(408, "Timeout")
                   [] req.server = PHPQA_API ->
                        Response(408, ("error" :> "Request timeout"))))
    /\ lastWrite' = NoWrite(lastWrite.on)
    /\ ended' = TimedOut(ended)
    /\ UNCHANGED <<req, files, clock, bridgeCalls, modelCalls, commands, backups,
                   reply>>
    /\ UNCHANGED dolphinVars

\* except Exception, around the command: docker exec could not be launched
CommandRaises ==
    /\ pc = "cmd"
    /\ Take(Done(CASE req.server = CONTAINER_API -> CommandFailed(Config)
                   [] req.server = CONTAINER_API_AI -> SendError(500, StrE)
                   [] req.server = PHPQA_API -> Response(500, ("error" :> StrE))))
    /\ ended' = Raised(ended)
    /\ UNCHANGED <<req, files, clock, bridgeCalls, modelCalls, commands, lastWrite, backups,
                   reply>>
    /\ UNCHANGED dolphinVars

\* The second docker exec (the report, or PHPCS run again) returns.
PostReturns(stdout) ==
    /\ pc = "post"
    /\ Take(Done(IF req.server = CONTAINER_API
                 THEN PostProcessed(Config, local, stdout)
                 ELSE RunPhpqaResponse(local, stdout, clock)))
    /\ ended' = [ended EXCEPT !.how = "returned", !.report = {stdout.json}]
    /\ UNCHANGED <<req, files, clock, bridgeCalls, modelCalls, commands, lastWrite, backups,
                   reply>>
    /\ UNCHANGED dolphinVars

\* The second docker exec times out: only container-api.py gives it a timeout,
\* and its post-processors catch the exception.
PostTimesOut ==
    /\ pc = "post"
    /\ call.timeout # NoTimeout
    /\ Take(Done(PostFailed(Config, local)))
    /\ ended' = TimedOut(ended)
    /\ UNCHANGED <<req, files, clock, bridgeCalls, modelCalls, commands, lastWrite, backups,
                   reply>>
    /\ UNCHANGED dolphinVars

\* The second docker exec could not be launched.
PostRaises ==
    /\ pc = "post"
    /\ Take(Done(IF req.server = CONTAINER_API
                 THEN PostFailed(Config, local)
                 ELSE Response(500, ("error" :> StrE))))
    /\ ended' = Raised(ended)
    /\ UNCHANGED <<req, files, clock, bridgeCalls, modelCalls, commands, lastWrite, backups,
                   reply>>
    /\ UNCHANGED dolphinVars

\* What the file operation's docker exec does in the target when it runs.
TargetOutcome ==
    IF req.server = CONTAINER_API
    THEN FileCommand(req.route, local, files)
    ELSE FileCommandAi(req.route, local, files)

\* The answer to a file operation whose docker exec returned result.
FileAnswer(result) ==
    IF req.server = CONTAINER_API
    THEN FileOperationResponse(req.route, FileResult(req.route, local, result), clock)
    ELSE SendJson(FileResultAi(req.route, local, result))

\* The latest three of a sequence.
Latest(seq) == IF Len(seq) > 3 THEN Tail(seq) ELSE seq

\* The file operation's docker exec returns in time: it ran in the target, or (not
\* healthy) docker exec itself failed with a non-zero exit code and ran nothing.
FileReturns(healthy) ==
    /\ pc = "file"
    /\ LET result == IF healthy THEN TargetOutcome ELSE Outcome(1, <<>>, files)
           done == result.returncode = 0
       IN  /\ files' = result.files
           /\ Take(Done(FileAnswer(result)))
           /\ lastWrite' =
                IF ~lastWrite.on \/ req.route = "read-file" THEN lastWrite
                ELSE IF req.route = "write-file" /\ done
                THEN [on |-> TRUE, server |-> req.server, file |-> local["file_path"],
                      content |-> local["content"], written |-> TRUE]
                ELSE NoWrite(TRUE)
           /\ backups' =
                IF backups.on /\ req.route = "backup-file" /\ done
                THEN [on |-> TRUE,
                      log |-> Latest(Append(backups.log,
                        [file |-> local["file_path"], second |-> call.started,
                         name |-> local["backup_path"],
                         source |-> files[Resolve(local["file_path"])]]))]
                ELSE backups
    /\ ended' = Returned((IF healthy THEN TargetOutcome ELSE Outcome(1, <<>>, files)).returncode)
    /\ UNCHANGED <<req, clock, bridgeCalls, modelCalls, commands, reply>>
    /\ UNCHANGED dolphinVars

\* The file operation's docker exec times out (10 s): the command ran in the
\* target before the deadline, or it did not.  Either way the histories of what
\* is known to be in the target are forgotten.
FileTimesOut(ran) ==
    /\ pc = "file"
    /\ call.timeout # NoTimeout
    /\ files' = IF ran THEN TargetOutcome.files ELSE files
    /\ Take(Done(IF req.server = CONTAINER_API
                 THEN FileOperationFailed(req.route, clock)
                 ELSE SendError(500, StrE)))
    /\ lastWrite' = IF req.route = "read-file" THEN lastWrite ELSE NoWrite(lastWrite.on)
    /\ backups' = IF req.route = "backup-file" THEN NoBackups(backups.on) ELSE backups
    /\ ended' = TimedOut(ended)
    /\ UNCHANGED <<req, clock, bridgeCalls, modelCalls, commands, reply>>
    /\ UNCHANGED dolphinVars

\* The file operation's docker exec could not be launched.
FileRaises ==
    /\ pc = "file"
    /\ Take(Done(IF req.server = CONTAINER_API
                 THEN FileOperationFailed(req.route, clock)
                 ELSE SendError(500, StrE)))
    /\ ended' = Raised(ended)
    /\ UNCHANGED <<req, files, clock, bridgeCalls, modelCalls, commands, lastWrite, backups,
                   reply>>
    /\ UNCHANGED dolphinVars

\* The model service answers within 60 s.
ModelReturns(answer) ==
    /\ pc = "model"
    /\ Take(Done(AiFixResponse(local, answer)))
    /\ reply' = answer
    /\ UNCHANGED <<req, files, clock, bridgeCalls, modelCalls, commands, lastWrite, backups,
                   ended>>
    /\ UNCHANGED dolphinVars

\* requests.post raises (no connection, or no answer within 60 s), or the answer
\* is no JSON: except Exception as e
ModelFails ==
    /\ pc = "model"
    /\ Take(Done(SendError(500, StrE)))
    /\ UNCHANGED <<req, files, clock, bridgeCalls, modelCalls, commands, lastWrite, backups,
                   ended, reply>>
    /\ UNCHANGED dolphinVars

\* A second passes.
Tick ==
    /\ clock < MaxClock
    /\ clock' = clock + 1
    /\ UNCHANGED <<pc, req, call, local, resp, files, bridgeCalls, modelCalls, commands,
                   lastWrite, backups, ended, reply>>
    /\ UNCHANGED dolphinVars

\* All three servers, every route.
Next ==
    \/ \E r \in DispatchRequests : Receive(r)
    \/ \E rc \in ExitCodes, out \in Outputs : CommandReturns(rc, out)
    \/ CommandTimesOut
    \/ CommandRaises
    \/ \E out \in Outputs : PostReturns(out)
    \/ PostTimesOut
    \/ PostRaises
    \/ \E healthy \in BOOLEAN : FileReturns(healthy)
    \/ \E ran \in BOOLEAN : FileTimesOut(ran)
    \/ FileRaises
    \/ \E answer \in DispatchReplies : ModelReturns(answer)
    \/ ModelFails

Spec == Init /\ [][Next]_vars

\* Every timeout given to subprocess.run or requests.post expires unless the call
\* ends before; nothing makes a client send a request or an external call return.
FairSpec ==
    /\ Spec
    /\ WF_vars(CommandTimesOut)
    /\ WF_vars(PostTimesOut)
    /\ WF_vars(\E ran \in BOOLEAN : FileTimesOut(ran))
    /\ WF_vars(ModelFails)

----------------------------------------------------------------------------
(* Writing and reading one file, through both servers.                     *)

FileServers == {CONTAINER_API, CONTAINER_API_AI}

\* write-file of every content and read-file, of the one file.
RoundTripRequests ==
    {Request(s, "POST", "write-file",
             JsonBody(("file" :> <<"a">>) @@ ("content" :> c))) :
        s \in FileServers, c \in Contents}
    \cup {Request(s, "POST", "read-file", JsonBody(("file" :> <<"a">>))) : s \in FileServers}

InitFiles ==
    /\ cuda_available = FALSE
    /\ Started
    /\ lastWrite = NoWrite(TRUE)
    /\ backups = NoBackups(FALSE)

NextFiles ==
    \/ \E r \in RoundTripRequests : Receive(r)
    \/ \E healthy \in BOOLEAN : FileReturns(healthy)
    \/ \E ran \in BOOLEAN : FileTimesOut(ran)
    \/ FileRaises

SpecFiles == InitFiles /\ [][NextFiles]_vars

----------------------------------------------------------------------------
(* Backups of one file while the wall clock runs and the file is written.  *)

BackupRequests ==
    {Request(s, "POST", "backup-file", JsonBody(("file" :> <<"a">>))) : s \in FileServers}
    \cup {Request(CONTAINER_API, "POST", "write-file",
                  JsonBody(("file" :> <<"a">>) @@ ("content" :> <<"$">>)))}

InitBackup ==
    /\ cuda_available = FALSE
    /\ Started
    /\ lastWrite = NoWrite(FALSE)
    /\ backups = NoBackups(TRUE)

NextBackup ==
    \/ \E r \in BackupRequests : Receive(r)
    \/ \E healthy \in BOOLEAN : FileReturns(healthy)
    \/ \E ran \in BOOLEAN : FileTimesOut(ran)
    \/ FileRaises
    \/ Tick

SpecBackup == InitBackup /\ [][NextBackup]_vars

----------------------------------------------------------------------------
(* The AI-fix workflow, for every answer of the model service.             *)

\* An opening fence with another language tag.
FenceJs == Fence \o <<"j", "s">>

ResponseParts == {FencePhp, FenceJs, Fence, <<"x">>, <<SP>>, <<NL>>}

\* The texts the model may generate.
ModelResponses == Concats(ResponseParts, MaxParts)

AiFixReplies ==
    {ModelReply(200, ("response" :> text)) : text \in ModelResponses}
    \cup {ModelReply(200, EmptyDict), ModelReply(500, EmptyDict)}

AiFixRequests ==
    Requests({CONTAINER_API_AI}, {"ai-fix-code"}, {},
             Bodies(Objects({<<"a">>}, {<<"a">>}, {<<"issue">>})), {})

NextAiFix ==
    \/ \E r \in AiFixRequests : Receive(r)
    \/ \E answer \in AiFixReplies : ModelReturns(answer)
    \/ ModelFails

SpecAiFix == Init /\ [][NextAiFix]_vars

----------------------------------------------------------------------------
(* The commands whose output is searched for counts.                       *)

\* Lines of PHP CS Fixer and of PHPUnit: two counts of fixed files, counts of
\* tests, a count of files on a line that mentions no fixing, a line without count.
MetricLines ==
    {<<Word("Fixed"), Num(1), Word("files")>>,
     <<Word("Fixed"), Num(2), Word("files")>>,
     <<Word("Tests:"), Num(1), Word("Assertions:"), Num(2)>>,
     <<Word("Tests:"), Num(3), Word("Failures:"), Num(1)>>,
     <<Num(3), Word("files")>>,
     <<Word("fixed"), Word("nothing")>>}

MetricOutputs == {StdOut(lines, NotJson) : lines \in SeqsUpTo(MetricLines, MaxLines)}

MetricRequests ==
    {Request(CONTAINER_API, "POST", rt, NoBody) : rt \in {"cs-fix", "test-unit"}}
    \cup {Request(PHPQA_API, "POST", "cs-fix", NoBody)}

NextMetrics ==
    \/ \E r \in MetricRequests : Receive(r)
    \/ \E returncode \in {0, 1}, stdout \in MetricOutputs : CommandReturns(returncode, stdout)

SpecMetrics == Init /\ [][NextMetrics]_vars

----------------------------------------------------------------------------
(* The commands that read a PHPCS report.                                  *)

\* Messages of a report: two on one line, one on another.
ReportMessages ==
    {Message(1, 1, "ERROR", TRUE), Message(1, 2, "WARNING", FALSE),
     Message(2, 1, "ERROR", FALSE)}

\* How many of the messages have the type.
RECURSIVE CountType(_, _)
CountType(messages, type) ==
    IF messages = <<>> THEN 0
    ELSE (IF Head(messages)["type"] = type THEN 1 ELSE 0) + CountType(Tail(messages), type)

\* The file entries of a report, their counts being those of their messages.
ReportEntries ==
    {FileEntry(name, CountType(messages, "ERROR"), CountType(messages, "WARNING"), messages) :
        name \in {"lib/A.php", "lib/B.php"},
        messages \in SeqsUpTo(ReportMessages, MaxMessages)}

\* The well-formed reports: every file under a path of its own.
Reports ==
    {Report(entries) : entries \in
        {es \in SeqsUpTo(ReportEntries, MaxFiles) :
            \A i, j \in DOMAIN es : es[i].path = es[j].path => i = j}}

ReportOutputs == {StdOut(<<>>, report) : report \in Reports}

ReportRequests ==
    {Request(s, "POST", "phpcs-detailed", NoBody) : s \in FileServers}

\* container-api-ai.py reads the report from the output of the command,
\* container-api.py from a second run of PHPCS.
NextReports ==
    \/ \E r \in ReportRequests : Receive(r)
    \/ /\ req.server = CONTAINER_API_AI
       /\ \E returncode \in {0, 1}, stdout \in ReportOutputs :
                CommandReturns(returncode, stdout)
    \/ /\ req.server = CONTAINER_API
       /\ \E returncode \in {0, 1} : CommandReturns(returncode, OutPlain)
    \/ \E stdout \in ReportOutputs : PostReturns(stdout)

SpecReports == Init /\ [][NextReports]_vars

----------------------------------------------------------------------------
(* The document-parsing server, api_server.py: Flask runs each request in  *)
(* a thread of its own, and the threads interleave between statements.     *)

\* Thread w moves to position next with its locals changed as given.
Goes(w, next, changes) ==
    workers' = [workers EXCEPT ![w] = [k \in DOMAIN @ |->
                    IF k = "pc" THEN next
                    ELSE IF k \in DOMAIN changes THEN changes[k] ELSE @[k]]]

\* Thread w answers with the status code.
Answers(w, code) == Goes(w, "idle", ("code" :> code))

\* An exception in thread w past the creation of its temporary file, if it has
\* one: parse_pdf's finally unlinks the file, then except Exception answers 500.
Fails(w) ==
    /\ Answers(w, 500)
    /\ tmpfiles' = tmpfiles \ workers[w].path

\* parse_document up to the call of load_dolphin_model
ParseRequest(w, input) ==
    /\ workers[w].pc = "idle"
    /\ accepted < MaxRequests
    /\ accepted' = accepted + 1
    /\ workers' = [workers EXCEPT ![w] =
            CASE input = "none" -> [IdleWorker EXCEPT !.route = "parse", !.code = 400]
              [] input = "unreadable" -> [IdleWorker EXCEPT !.route = "parse", !.code = 500]
              [] input = "image" ->
                    [IdleWorker EXCEPT !.route = "parse", !.pc = "load", !.pages = 1]]
    /\ UNCHANGED <<dolphin_model, dolphin_processor, cuda_available, tmpfiles, loads>>
    /\ UNCHANGED apiVars

\* parse_pdf up to the call of load_dolphin_model: the temporary file is made
\* and the upload saved in it outside the try whose finally unlinks it.
ParsePdfRequest(w, outcome, pages) ==
    /\ workers[w].pc = "idle"
    /\ accepted < MaxRequests
    /\ accepted' = accepted + 1
    /\ LET pdf_path == accepted + 1
           request == [IdleWorker EXCEPT !.route = "parse_pdf"]
       IN  CASE outcome = "no_file" ->
                    /\ workers' = [workers EXCEPT ![w] = [request EXCEPT !.code = 400]]
                    /\ tmpfiles' = tmpfiles
             [] outcome = "save_fails" ->
                    /\ workers' = [workers EXCEPT ![w] =
                            [request EXCEPT !.path = {pdf_path}, !.code = 500]]
                    /\ tmpfiles' = tmpfiles \cup {pdf_path}
             [] outcome = "convert_fails" ->
                    /\ workers' = [workers EXCEPT ![w] =
                            [request EXCEPT !.path = {pdf_path}, !.code = 500]]
                    /\ tmpfiles' = tmpfiles
             [] outcome = "converted" ->
                    /\ workers' = [workers EXCEPT ![w] =
                            [request EXCEPT !.path = {pdf_path}, !.pc = "load",
                                            !.pages = pages]]
                    /\ tmpfiles' = tmpfiles \cup {pdf_path}
    /\ UNCHANGED <<dolphin_model, dolphin_processor, cuda_available, loads>>
    /\ UNCHANGED apiVars

\* load_dolphin_model: if dolphin_model is None
LoadCheck(w) ==
    /\ workers[w].pc = "load"
    /\ Goes(w, IF dolphin_model = NoModel THEN "load_processor" ELSE "return", EmptyDict)
    /\ UNCHANGED <<dolphin_model, dolphin_processor, cuda_available, tmpfiles, accepted,
                   loads>>
    /\ UNCHANGED apiVars

\* dolphin_processor = AutoProcessor.from_pretrained(...), or it raises
LoadProcessor(w, ok) ==
    /\ workers[w].pc = "load_processor"
    /\ IF ok
       THEN /\ dolphin_processor' = "AutoProcessor"
            /\ loads' = [loads EXCEPT !.processor = @ + 1]
            /\ Goes(w, "load_model", EmptyDict)
            /\ tmpfiles' = tmpfiles
       ELSE /\ Fails(w)
            /\ UNCHANGED <<dolphin_processor, loads>>
    /\ UNCHANGED <<dolphin_model, cuda_available, accepted>>
    /\ UNCHANGED apiVars

\* dolphin_model = AutoModel.from_pretrained(...), or it raises
LoadModel(w, ok) ==
    /\ workers[w].pc = "load_model"
    /\ IF ok
       THEN /\ dolphin_model' = FromPretrained
            /\ loads' = [loads EXCEPT !.model = @ + 1]
            /\ Goes(w, IF cuda_available THEN "load_cuda" ELSE "load_eval", EmptyDict)
            /\ tmpfiles' = tmpfiles
       ELSE /\ Fails(w)
            /\ UNCHANGED <<dolphin_model, loads>>
    /\ UNCHANGED <<dolphin_processor, cuda_available, accepted>>
    /\ UNCHANGED apiVars

\* dolphin_model = dolphin_model.cuda(), or it raises (no memory on the GPU)
LoadCuda(w, ok) ==
    /\ workers[w].pc = "load_cuda"
    /\ IF ok
       THEN /\ dolphin_model' = [dolphin_model EXCEPT !.on_gpu = TRUE]
            /\ Goes(w, "load_eval", EmptyDict)
            /\ tmpfiles' = tmpfiles
       ELSE /\ Fails(w)
            /\ UNCHANGED dolphin_model
    /\ UNCHANGED <<dolphin_processor, cuda_available, accepted, loads>>
    /\ UNCHANGED apiVars

\* dolphin_model.eval()
LoadEval(w) ==
    /\ workers[w].pc = "load_eval"
    /\ dolphin_model' = [dolphin_model EXCEPT !.in_eval = TRUE]
    /\ Goes(w, "return", EmptyDict)
    /\ UNCHANGED <<dolphin_processor, cuda_available, tmpfiles, accepted, loads>>
    /\ UNCHANGED apiVars

\* return dolphin_model, dolphin_processor
LoadReturn(w) ==
    /\ workers[w].pc = "return"
    /\ Goes(w, "process",
            ("loaded" :> {[model |-> dolphin_model, processor |-> dolphin_processor]}))
    /\ UNCHANGED <<dolphin_model, dolphin_processor, cuda_available, tmpfiles, accepted,
                   loads>>
    /\ UNCHANGED apiVars

\* The image, or one page of the PDF, is processed, or that raises.
ProcessPage(w, ok) ==
    /\ workers[w].pc = "process"
    /\ workers[w].pages > 0
    /\ IF ok
       THEN /\ Goes(w, "process", ("pages" :> workers[w].pages - 1))
            /\ tmpfiles' = tmpfiles
       ELSE Fails(w)
    /\ UNCHANGED <<dolphin_model, dolphin_processor, cuda_available, accepted, loads>>
    /\ UNCHANGED apiVars

\* return jsonify(result), through parse_pdf's finally
Responds(w) ==
    /\ workers[w].pc = "process"
    /\ workers[w].pages = 0
    /\ Answers(w, 200)
    /\ tmpfiles' = tmpfiles \ workers[w].path
    /\ UNCHANGED <<dolphin_model, dolphin_processor, cuda_available, accepted, loads>>
    /\ UNCHANGED apiVars

InitDolphin ==
    /\ cuda_available \in BOOLEAN
    /\ Started
    /\ lastWrite = NoWrite(FALSE)
    /\ backups = NoBackups(FALSE)

NextDolphin ==
    \E w \in Workers :
        \/ \E input \in {"none", "unreadable", "image"} : ParseRequest(w, input)
        \/ \E outcome \in {"no_file", "save_fails", "convert_fails", "converted"},
              pages \in 0..MaxPages : ParsePdfRequest(w, outcome, pages)
        \/ LoadCheck(w)
        \/ \E ok \in BOOLEAN : LoadProcessor(w, ok)
        \/ \E ok \in BOOLEAN : LoadModel(w, ok)
        \/ \E ok \in BOOLEAN : LoadCuda(w, ok)
        \/ LoadEval(w)
        \/ LoadReturn(w)
        \/ \E ok \in BOOLEAN : ProcessPage(w, ok)
        \/ Responds(w)

SpecDolphin == InitDolphin /\ [][NextDolphin]_vars

----------------------------------------------------------------------------
(* Properties.                                                             *)

\* The request in hand has its answer in resp.
Answered == pc = "idle" /\ req # NoRequest

\* The request in hand is a file operation of a server that has them.
FileOperationRequest ==
    req.method = "POST" /\ req.route \in FileOperations /\ req.server \in FileServers

\* It names a path that Path Guard is specified to reject.
UnsafeRequest ==
    /\ FileOperationRequest
    /\ req.body.kind = "object"
    /\ "file" \in DOMAIN req.body.obj
    /\ Unsafe(req.body.obj["file"])

\* The request in hand is a POST to a registered command of its server.
CommandRequest ==
    /\ req.method = "POST"
    /\ req.server \in Servers
    /\ req.route \in DOMAIN commands[req.server]

\* The command ran and the answer carries its outcome.
CommandResponse == Answered /\ CommandRequest /\ resp.code = 200

\* Whether s ends in t.
EndsWith(s, t) == Len(s) >= Len(t) /\ SubSeq(s, Len(s) - Len(t) + 1, Len(s)) = t

\* C1: a file operation of either server on a path that contains '..' or starts
\* with '/' is answered at once with an error and makes no call of the Execution
\* Bridge, so the files of the target stay as they are.
C1_UnsafePathRejected ==
    UnsafeRequest =>
        /\ pc = "idle"
        /\ bridgeCalls = 0
        /\ "error" \in DOMAIN resp.body

\* C2: the answer to a registered command whose calls of the Execution Bridge all
\* returned in time is HTTP 200, carries the exit code of the command, and has
\* status 'success' for exit code 0 and 'completed_with_errors' otherwise.
C2_ExitCodeDecidesStatus ==
    (Answered /\ CommandRequest /\ ended.how = "returned") =>
        /\ resp.code = 200
        /\ {resp.body["exit_code"]} = ended.returncode
        /\ resp.body["status"] =
              IF ended.returncode = {0} THEN "success" ELSE "completed_with_errors"

\* The post-processor left an error in the response.
PostProcessorError ==
    "post_processor_error" \in DOMAIN resp.body \/ "error" \in DOMAIN resp.body

\* C3, as stated: in a command response status is 'success' iff the exit code is 0
\* and no post-processor error occurred.
C3_SuccessIffExitZeroAndNoPostError ==
    CommandResponse =>
        (resp.body["status"] = "success" <=>
            (ended.returncode = {0} /\ ~PostProcessorError))

\* C3, as amended: in a command response status is 'success' iff the exit code of
\* the command is 0, whatever the post-processor reports.
C3_SuccessIffExitZero ==
    CommandResponse => (resp.body["status"] = "success" <=> ended.returncode = {0})

\* A command ended with exit code 0, its post-processor reported a parse failure,
\* and the response carries status 'success'.
C3_Witness ==
    /\ CommandResponse
    /\ ended.returncode = {0}
    /\ "error" \in DOMAIN resp.body
    /\ resp.body["status"] = "success"

\* C4: a registered command whose Execution Bridge call runs out of its timeout is
\* answered with HTTP 408, and no request for a registered command stays without
\* an answer forever.
C4_TimeoutAnsweredNeverHangs ==
    /\ []((Answered /\ CommandRequest /\ ended = TimedOut(NotEnded)) => resp.code = 408)
    /\ (pc \in {"cmd", "post"}) ~> (pc = "idle")

\* C5: a read-file that succeeds after a successful write-file of the same path,
\* with nothing touching the file in between, returns exactly the content written.
C5_WriteReadRoundTrip ==
    (/\ Answered
     /\ FileOperationRequest
     /\ req.route = "read-file"
     /\ ended = Returned(0)
     /\ lastWrite.written
     /\ lastWrite.file = req.body.obj["file"])
    => resp.body["content"] = lastWrite.content

\* Whether ts reads YYYYMMDD_HHMMSS.
IsTimestamp(ts) ==
    /\ Len(ts) = 15
    /\ ts[9] = "_"
    /\ \A i \in (1..15) \ {9} : \E d \in 1..10 : ts[i] = Digits[d]

\* C6: a successful backup is named path.backup_YYYYMMDD_HHMMSS; of the latest
\* successful backups of a path, two have the same name iff they were made in the
\* same second, and the file of each name holds what the source held at the
\* latest backup of that name: the same second leaves one file, overwritten, and
\* different seconds leave distinct files.
C6_BackupNaming ==
    LET log == backups.log
        n == Len(log)
        prefix(b) == b.file \o <<".", "b", "a", "c", "k", "u", "p", "_">>
    IN  \A i \in 1..n :
            /\ StartsWith(log[i].name, prefix(log[i]))
            /\ IsTimestamp(SubSeq(log[i].name, Len(prefix(log[i])) + 1, Len(log[i].name)))
            /\ Resolve(log[i].name) \in DOMAIN files
            /\ \A j \in i..n :
                    (log[j].file = log[i].file) =>
                        /\ (log[i].name = log[j].name) <=> (log[i].second = log[j].second)
                        /\ (\A k \in (j + 1)..n : log[k].name # log[i].name)
                            => (log[j].name = log[i].name
                                => files[Resolve(log[i].name)] = log[j].source)

\* Two backups of a path in one second, the source changed in between, and a
\* third backup in another second.
C6_Witness ==
    /\ Len(backups.log) = 3
    /\ backups.log[1].file = backups.log[2].file
    /\ backups.log[2].file = backups.log[3].file
    /\ backups.log[1].second = backups.log[2].second
    /\ backups.log[1].source # backups.log[2].source
    /\ backups.log[2].second # backups.log[3].second

\* The model service answered with a text.
Generated == reply.status_code = 200 /\ "response" \in DOMAIN reply.json

\* text is one php-tagged fence and what it wraps, with whitespace around at most.
WrappedInPhpFence(text) ==
    LET t == Strip(text)
    IN  /\ Len(t) >= Len(FencePhp) + Len(Fence)
        /\ StartsWith(t, FencePhp)
        /\ EndsWith(t, Fence)
        /\ ~Contains(SubSeq(t, Len(FencePhp) + 1, Len(t) - Len(Fence)), Fence)

\* What the fence wraps.
FencedInner(text) ==
    LET t == Strip(text) IN SubSeq(t, Len(FencePhp) + 1, Len(t) - Len(Fence))

\* C7: fixed_code is the fenced inner text, trimmed, when the model response is
\* wrapped in a php-tagged fence, and the full response, trimmed, when it holds no
\* fence at all.
C7_FixedCodeExtracted ==
    (Answered /\ Generated) =>
        LET text == reply.json["response"]
        IN  /\ WrappedInPhpFence(text) => resp.body["fixed_code"] = Strip(FencedInner(text))
            /\ ~Contains(text, Fence) => resp.body["fixed_code"] = Strip(text)

\* The request in hand is a POST to a name its server does not know.
UnknownPost ==
    /\ req.method = "POST"
    /\ req.server \in Servers
    /\ req.route \notin FileOperations \cup {"ai-fix-code"} \cup DOMAIN commands[req.server]

\* C8: a POST to an unknown name is answered by every server with HTTP 404 and a
\* body that lists every registered command and the three file operations, and
\* not the unknown name.
C8_UnknownPostListsCommands ==
    (Answered /\ UnknownPost) =>
        /\ resp.code = 404
        /\ resp.hasBody
        /\ "available_commands" \in DOMAIN resp.body
        /\ resp.body["available_commands"] = DOMAIN commands[req.server] \cup FileOperations
        /\ req.route \notin resp.body["available_commands"]

\* The request in hand is POST /ai-fix-code with a JSON object that lacks a field.
AiFixLacking ==
    /\ req.server = CONTAINER_API_AI
    /\ req.method = "POST"
    /\ req.route = "ai-fix-code"
    /\ req.body.kind = "object"
    /\ \E k \in {"file", "issues", "content"} : k \notin DOMAIN req.body.obj

\* C9: POST /ai-fix-code with a JSON body that lacks file, issues or content is
\* answered at once with HTTP 400 and an error message, and the model service is
\* not called.
C9_MissingFieldsRejected ==
    AiFixLacking =>
        /\ pc = "idle"
        /\ modelCalls = 0
        /\ resp.code = 400
        /\ "error" \in DOMAIN resp.body

\* The body has file and content and lacks only the issues, and was answered.
C9_Witness ==
    /\ AiFixLacking
    /\ Answered
    /\ DOMAIN req.body.obj = {"file", "content"}
    /\ resp.code = 400
    /\ modelCalls = 0

\* C10: every answer with a status code outside 200..299 has a JSON body with an
\* 'error' in it.
C10_ErrorsHaveJsonBody ==
    (Answered /\ resp.code \notin 200..299) =>
        /\ resp.hasBody
        /\ "error" \in DOMAIN resp.body

\* The request in hand is a POST to one of the two servers with a Command Registry.
RegistryPost == req.method = "POST" /\ req.server \in FileServers

\* The branch of do_POST that the path of the request in hand names, in the order
\* file operations, ai-fix-code (container-api-ai.py only), registry, unknown.
Branch ==
    IF req.route \in FileOperations THEN "file"
    ELSE IF req.server = CONTAINER_API_AI /\ req.route = "ai-fix-code" THEN "model"
    ELSE IF req.route \in DOMAIN commands[req.server] THEN "command"
    ELSE "unknown"

\* The positions and external calls of each branch.
BranchPositions ==
    ("file" :> {"idle", "file"}) @@ ("model" :> {"idle", "model"}) @@
    ("command" :> {"idle", "cmd", "post"}) @@ ("unknown" :> {"idle"})
BranchCalls ==
    ("file" :> FileOperations) @@ ("model" :> {"generate"}) @@
    ("command" :> {"command", "report", "phpcs"}) @@ ("unknown" :> {})

\* C11: a POST takes exactly the branch its path names, in the order file
\* operations, ai-fix-code, registry lookup, unknown (404): it is only ever at a
\* position of that branch and only makes that branch's external calls, only the
\* unknown branch answers 404, and a file operation is never run as a registered
\* command.
C11_RoutingOrder ==
    RegistryPost =>
        /\ pc \in BranchPositions[Branch]
        /\ call.kind \in BranchCalls[Branch] \cup {"none"}
        /\ Branch # "model" => modelCalls = 0
        /\ Branch \in {"model", "unknown"} => bridgeCalls = 0
        /\ Answered => (resp.code = 404 <=> Branch = "unknown")

\* A file operation is blocked on its own docker exec.
C11_Witness ==
    /\ RegistryPost
    /\ req.route \in FileOperations
    /\ pc = "file"
    /\ call.kind = req.route

\* The path check of the server that handles the request in hand rejects its path.
GuardRejects ==
    /\ req.body.kind = "object"
    /\ "file" \in DOMAIN req.body.obj
    /\ IF req.server = CONTAINER_API
       THEN InvalidPath(req.body.obj["file"])
       ELSE InvalidPathAi(req.body.obj["file"])

\* C12: a file operation whose body is not valid JSON, or whose path the path
\* check rejects, is answered at once with HTTP 400, by both servers.
C12_BadBodyOrPathIs400 ==
    (FileOperationRequest /\ (req.body.kind = "invalid" \/ GuardRejects)) =>
        /\ pc = "idle"
        /\ resp.code = 400

\* The docker exec of the file operation in hand returned a non-zero exit code.
FileOperationExitedNonZero ==
    /\ Answered
    /\ FileOperationRequest
    /\ ended.how = "returned"
    /\ ended.returncode # {0}

\* C13: a file operation whose docker exec returns a non-zero exit code is
\* answered with HTTP 500 and a body that carries an error message and the
\* stderr of the target.
C13_FileFailureIs500WithStderr ==
    FileOperationExitedNonZero =>
        /\ resp.code = 500
        /\ "error" \in DOMAIN resp.body
        /\ "stderr" \in DOMAIN resp.body


\* The request in hand is a POST to a registered command that has a post-processor,
\* on a server with a Command Registry, and the command itself has returned.
PostProcessedRequest ==
    /\ RegistryPost
    /\ req.route \in DOMAIN commands[req.server]
    /\ commands[req.server][req.route].post_processor # None
    /\ ended.returncode # {}

\* The post-processor of the request in hand failed: it raised on the output of
\* the command, or its own call of the Execution Bridge did not return.
PostProcessorFailure ==
    \/ PostProcessorRaises(commands[req.server][req.route].post_processor,
                           resp.body["output"])
    \/ ended.how # "returned"

\* The response carries the failure of the post-processor.
ErrorAttached ==
    \/ "post_processor_error" \in DOMAIN resp.body
    \/ "error" \in DOMAIN resp.body
    \/ "phpqa_report" \in DOMAIN resp.body /\ "error" \in DOMAIN resp.body["phpqa_report"]

\* C14: a registered command with a post-processor whose command returned is
\* answered with HTTP 200 and the base fields exit_code and output whatever the
\* post-processor does, and when the post-processor fails the response carries
\* the failure in an error field.
C14_PostProcessorFailureContained ==
    (Answered /\ PostProcessedRequest) =>
        /\ resp.code = 200
        /\ {resp.body["exit_code"]} = ended.returncode
        /\ "output" \in DOMAIN resp.body
        /\ PostProcessorFailure => ErrorAttached

C14_Witness ==
    /\ Answered
    /\ PostProcessedRequest
    /\ PostProcessorRaises(commands[req.server][req.route].post_processor,
                           resp.body["output"])
    /\ "post_processor_error" \in DOMAIN resp.body


\* The post-processors that read a structured report.
ReportPostProcessors ==
    {"process_phpcs_result", "process_phpcs_detailed", "process_phpqa_result"}

\* The request in hand is a POST to a registered command whose post-processor
\* reads a structured report, and every call of the Execution Bridge returned.
ReportRequest ==
    /\ PostProcessedRequest
    /\ commands[req.server][req.route].post_processor \in ReportPostProcessors
    /\ ended.how = "returned"

\* The report that the post-processor read was not JSON: process_phpcs_detailed
\* reads the output of the command, the others the output of their own call.
BrokenReport ==
    IF commands[req.server][req.route].post_processor = "process_phpcs_detailed"
    THEN resp.body["output"].json = NotJson
    ELSE ended.report = {NotJson}

\* C15: when the structured report is not JSON the response is still HTTP 200
\* with the exit code and the status of the command, and carries an error
\* message and, for the post-processors that list PHPCS issues, an empty list.
C15_BrokenReportKeepsOutcome ==
    (Answered /\ ReportRequest /\ BrokenReport) =>
        /\ resp.code = 200
        /\ {resp.body["exit_code"]} = ended.returncode
        /\ resp.body["status"] =
              IF ended.returncode = {0} THEN "success" ELSE "completed_with_errors"
        /\ ErrorAttached
        /\ commands[req.server][req.route].post_processor # "process_phpqa_result" =>
              "phpcs_issues" \in DOMAIN resp.body /\ resp.body["phpcs_issues"] = <<>>


\* The request in hand is a POST /ai-fix-code to the server that has it.
AiFixRequest ==
    req.method = "POST" /\ req.server = CONTAINER_API_AI /\ req.route = "ai-fix-code"

\* C16: while POST /ai-fix-code is handled no call of the Execution Bridge is made
\* and no file of the target changes, whatever the model returns; the files of
\* the target change only while a write-file or backup-file request is handled.
C16_AiFixLeavesTargetAlone ==
    /\ [](AiFixRequest => bridgeCalls = 0 /\ call.kind \in {"none", "generate"})
    /\ [][AiFixRequest' => files' = files]_vars
    /\ [][files' # files =>
            FileOperationRequest /\ req.route \in {"write-file", "backup-file"}]_vars

C16_Witness ==
    /\ Answered
    /\ AiFixRequest
    /\ reply # NoReply
    /\ resp.code = 200
    /\ resp.body["fixed_code"] # <<>>
    /\ files # InitialFiles


\* C17: whenever a request waits on an external call (a docker exec of the
\* Execution Bridge, the second one that fetches a report included, or the call
\* of the model service), that call was made with a timeout.
C17_EveryCallHasTimeout ==
    pc # "idle" => call.kind # "none" /\ call.timeout # NoTimeout


\* The first docker exec of the request in hand (of a registered command or of a
\* file operation) could not be launched.
BridgeLaunchFailed ==
    /\ RegistryPost
    /\ ended.how = "raised"
    /\ ended.returncode = {}

\* The model service failed the ai-fix-code request in hand: no usable reply, or
\* a reply whose status is not 200.
ModelUnavailable ==
    /\ AiFixRequest
    /\ modelCalls > 0
    /\ reply = NoReply \/ reply.status_code # 200

\* C18: a request whose external dependency failed (the model service during
\* ai-fix-code, or the launch of docker exec for a registered command or a file
\* operation) is answered with HTTP 500 and an error message after that one call.
C18_DependencyFailureIs500 ==
    (Answered /\ (BridgeLaunchFailed \/ ModelUnavailable)) =>
        /\ resp.code = 500
        /\ "error" \in DOMAIN resp.body
        /\ bridgeCalls + modelCalls = 1


\* C19: the Command Registry of every server is at all times what it was when the
\* process started: the same names, and for each name the same command, timeout,
\* description and post-processor.
C19_RegistryNeverMutated ==
    /\ DOMAIN commands = DOMAIN COMMANDS
    /\ \A server \in DOMAIN COMMANDS :
          /\ DOMAIN commands[server] = DOMAIN COMMANDS[server]
          /\ \A name \in DOMAIN COMMANDS[server] :
                commands[server][name] = COMMANDS[server][name]

C19_Witness ==
    /\ Answered
    /\ CommandRequest
    /\ req.server = CONTAINER_API
    /\ resp.code = 200
    /\ files # InitialFiles
    /\ commands = COMMANDS


\* The response names the operation or the command it answers.
NamesRequest ==
    \/ "command" \in DOMAIN resp.body /\ resp.body["command"] = req.route
    \/ "operation" \in DOMAIN resp.body /\ resp.body["operation"] = req.route

\* C20: the answer to every POST, whatever its HTTP status, has a body with a
\* timestamp and the name of the operation or command, and an error field when
\* the status is not 200.
C20_UniformEnvelope ==
    (Answered /\ RegistryPost) =>
        /\ resp.hasBody
        /\ "timestamp" \in DOMAIN resp.body
        /\ NamesRequest
        /\ resp.code # 200 => "error" \in DOMAIN resp.body


\* C21: while a request is blocked on an external call, the server can accept
\* another request.
C21_AcceptsWhileBlocked ==
    pc # "idle" => ENABLED (\E r \in DispatchRequests : Receive(r))


\* C22: a file operation whose docker exec runs out of its 10 s is answered with
\* HTTP 408, as a registered command is.
C22_FileTimeoutIs408 ==
    (Answered /\ FileOperationRequest /\ ended.how = "timeout") => resp.code = 408


\* The language tags of the fences the model service is taken to write.
Tags == {<<"p", "h", "p">>, <<"j", "s">>}

\* text is, with whitespace around at most, one fenced block: an opening fence
\* with the tag (<<>> for none) and a newline, the block, the closing fence.
FencedBlock(text, tag) ==
    LET t == Strip(text)
        open == Fence \o tag \o <<NL>>
    IN  /\ Len(t) >= Len(open) + Len(Fence)
        /\ StartsWith(t, open)
        /\ EndsWith(t, Fence)
        /\ ~Contains(SubSeq(t, Len(open) + 1, Len(t) - Len(Fence)), Fence)

\* What the block holds.
BlockInner(text, tag) ==
    LET t == Strip(text)
    IN  SubSeq(t, Len(Fence) + Len(tag) + 2, Len(t) - Len(Fence))

\* C23: fixed_code never holds a fence marker; it is the content of the block
\* when the model response is one language-tagged fenced block, without the tag;
\* the content of the block when it is one untagged fenced block; and the whole
\* response (up to whitespace at its ends) when it holds no fence.
C23_ExtractionPrecedence ==
    (Answered /\ Generated) =>
        LET text == reply.json["response"]
            code == resp.body["fixed_code"]
        IN  /\ ~Contains(code, Fence)
            /\ \A tag \in Tags \cup {<<>>} :
                    FencedBlock(text, tag) => code = Strip(BlockInner(text, tag))
            /\ ~Contains(text, Fence) => Strip(code) = Strip(text)


\* The lines of the output that tell of fixed files with a count.
FixedLines(lines) ==
    {i \in DOMAIN lines : MentionsFixed(lines[i]) /\ FileCounts(lines[i]) # {}}

\* The first count of fixed files in the output, 0 when there is none.
FirstFilesFixed(lines) ==
    IF FixedLines(lines) = {} THEN 0
    ELSE LET line == lines[Min(FixedLines(lines))]
         IN  line[Min(FileCounts(line))].n

\* The first number that follows the label in the output, 0 when there is none.
FirstMetric(lines, label) ==
    LET toks == Flatten(lines)
        hits == {i \in 1..(Len(toks) - 1) : toks[i] = Word(label) /\ IsNum(toks[i + 1])}
    IN  IF hits = {} THEN 0 ELSE toks[Min(hits) + 1].n

\* The output of the command, as the response in hand reports it.
ReportedOutput ==
    IF req.server = PHPQA_API THEN resp.body["command_output"] ELSE resp.body["output"]

\* C24: the response to a command whose output is searched for counts is HTTP 200
\* and carries, for each metric, the first matching count of the output, and 0
\* when nothing matches.
C24_FirstMatchPerMetric ==
    (Answered /\ CommandRequest /\ ended.how = "returned") =>
        /\ resp.code = 200
        /\ "post_processor_error" \notin DOMAIN resp.body
        /\ "files_fixed" \in DOMAIN resp.body =>
              resp.body["files_fixed"] = FirstFilesFixed(ReportedOutput.lines)
        /\ "tests_run" \in DOMAIN resp.body =>
              /\ resp.body["tests_run"] = FirstMetric(ReportedOutput.lines, "Tests:")
              /\ resp.body["assertions"] = FirstMetric(ReportedOutput.lines, "Assertions:")
              /\ resp.body["failures"] = FirstMetric(ReportedOutput.lines, "Failures:")
        /\ req.route = "cs-fix" <=> "files_fixed" \in DOMAIN resp.body
        /\ req.route = "test-unit" <=> "tests_run" \in DOMAIN resp.body


\* The report that the post-processor of the request in hand read.
ReportRead ==
    IF req.server = CONTAINER_API_AI
    THEN resp.body["output"].json
    ELSE CHOOSE report \in ended.report : TRUE

\* The issue carries what the message of the report says.
KeepsMessage(issue, msg) ==
    \A field \in {"column", "source", "severity", "message", "fixable"} :
        field \in DOMAIN issue /\ issue[field] = msg[field]

\* issues_by_line groups the messages by their line, in the order of the report.
GroupsMessages(issues_by_line, messages) ==
    /\ DOMAIN issues_by_line = {messages[i]["line"] : i \in DOMAIN messages}
    /\ \A line \in DOMAIN issues_by_line :
          LET SameLine(msg) == msg["line"] = line
              of_line == SelectSeq(messages, SameLine)
          IN  /\ Len(issues_by_line[line]) = Len(of_line)
              /\ \A i \in DOMAIN of_line : KeepsMessage(issues_by_line[line][i], of_line[i])

\* C25: for a well-formed report the response lists exactly the files with errors
\* or warnings, in the order of the report; under each, every message once under
\* its line, in the order of the report, with its column, source, severity,
\* message and fixable; and the totals are the sums over the listed files.
C25_ReportExtraction ==
    (Answered /\ ReportRequest /\ req.route = "phpcs-detailed" /\ ~BrokenReport) =>
        LET listed == SelectSeq(ReportRead["files"], HasIssues)
            issues == resp.body["phpcs_issues"]
            totals == resp.body["totals"]
        IN  /\ Len(issues) = Len(listed)
            /\ \A i \in DOMAIN listed :
                  /\ issues[i]["file"].name = listed[i].path.name
                  /\ GroupsMessages(issues[i]["issues_by_line"], listed[i].data["messages"])
            /\ totals["files_with_issues"] = Len(listed)
            /\ totals["total_errors"] = SumOf(listed, "errors")
            /\ totals["total_warnings"] = SumOf(listed, "warnings")


\* The fields of a command response that are built before the post-processor runs.
BaseFields == {"timestamp", "command", "status", "exit_code", "output"}

\* C26: the response to a registered command with a post-processor carries the
\* base fields of the completed command, whatever the post-processor returned:
\* the name, the exit code and its status, the output and the timestamp; and
\* where the post-processor makes a call of its own, the base fields of the
\* response are those built before that call.
C26_BaseFieldsKept ==
    /\ []((Answered /\ PostProcessedRequest) =>
            /\ BaseFields \subseteq DOMAIN resp.body
            /\ resp.body["command"] = req.route
            /\ {resp.body["exit_code"]} = ended.returncode
            /\ resp.body["status"] =
                  IF ended.returncode = {0} THEN "success" ELSE "completed_with_errors"
            /\ resp.body["output"] \in Outputs
            /\ resp.body["timestamp"] \in {Timestamp(t) : t \in 0..MaxClock})
    /\ [][(pc = "post" /\ pc' = "idle" /\ RegistryPost) =>
            \A field \in BaseFields :
                resp'.body[field] = local["response_data"][field]]_vars

C26_Witness ==
    /\ Answered
    /\ PostProcessedRequest
    /\ req.route = "test-unit"
    /\ ended.returncode = {1}
    /\ resp.body["success"] = FALSE
    /\ resp.body["tests_run"] > 0


\* C27: while a POST to a registered command is handled its shell command is
\* launched once: the post-processor does not run it again, and the issues of
\* the response are those of the output that the response reports.
C27_CommandLaunchedOnce ==
    (RegistryPost /\ req.route \in DOMAIN commands[req.server]) =>
        /\ call.kind # "phpcs"
        /\ (Answered /\ ReportRequest /\ req.route = "phpcs-detailed" /\ ~BrokenReport) =>
              ReportRead = resp.body["output"].json


\* C28: the model and the processor of the document-parsing server are loaded
\* from disk at most once in the life of the process.
C28_ModelLoadedAtMostOnce ==
    loads.model <= 1 /\ loads.processor <= 1

\* What a fully initialised model is: loaded, on the GPU when there is one, in eval mode.
FullyInitialized(model) ==
    model.loaded /\ model.in_eval /\ (cuda_available => model.on_gpu)

\* C29: whatever load_dolphin_model has returned to a request thread is a
\* processor that is set and a model that is fully initialised.
C29_ReturnedModelInitialized ==
    \A w \in Workers :
        \A pair \in workers[w].loaded :
            pair.processor # None /\ FullyInitialized(pair.model)

\* C30: once a /parse_pdf request has its response, the temporary file it made
\* is gone.
C30_TempFileDeleted ==
    \A w \in Workers :
        (workers[w].route = "parse_pdf" /\ workers[w].code # 0) =>
            workers[w].path \cap tmpfiles = {}

============================================================================
